---- MODULE Spec2Model ----
(***************************************************************************)
(* Registration and password-recovery routers of the SUTUTEH backend       *)
(* (consultas/registro.js, consultas/recuperarContrasena.js): the rows of  *)
(* autenticacion_usuarios / perfil_usuarios, the one-time code stored on   *)
(* a row, and the request handlers that read and write them.               *)
(***************************************************************************)
EXTENDS Integers, Sequences, FiniteSets

(***************************************************************************)
(* Bounds of the model                                                     *)
(***************************************************************************)
\* the clock advances at most MaxBigTicks times by BigTick; after each advance
\* (and at the start) it may advance once more, by one millisecond
MaxBigTicks == 3

(***************************************************************************)
(* Values                                                                  *)
(***************************************************************************)
\* SQL NULL / JavaScript null: a nullable column holds <<>> or <<value>>
NULL == <<>>
Some(x) == <<x>>

MsPerMin == 1000 * 60
BigTick == 5 * MsPerMin
\* Date.now() of the initial state: milliseconds since the epoch, far more than any window
StartNow == 1000000 * 1000

\* window of validarCodigo / verificarCodigo, in milliseconds
TTL_VERIFY == 10 * 60 * 1000
\* window of verificarCodigo and actualizarContrasena, in minutes
TTL_VERIFY_MIN == 10
TTL_RESET_MIN == 15

LowerChars == {"a","b","c","d","e","f","g","h","i","j","k","l","m",
               "n","o","p","q","r","s","t","u","v","w","x","y","z"}
UpperChars == {"A","B","C","D","E","F","G","H","I","J","K","L","M",
               "N","O","P","Q","R","S","T","U","V","W","X","Y","Z"}
DigitChars == {"0","1","2","3","4","5","6","7","8","9"}
SpecialChars == {"@","$","!","%","*","?","&"}

UpperOf == [c \in LowerChars |->
  CASE c = "a" -> "A" [] c = "b" -> "B" [] c = "c" -> "C" [] c = "d" -> "D"
    [] c = "e" -> "E" [] c = "f" -> "F" [] c = "g" -> "G" [] c = "h" -> "H"
    [] c = "i" -> "I" [] c = "j" -> "J" [] c = "k" -> "K" [] c = "l" -> "L"
    [] c = "m" -> "M" [] c = "n" -> "N" [] c = "o" -> "O" [] c = "p" -> "P"
    [] c = "q" -> "Q" [] c = "r" -> "R" [] c = "s" -> "S" [] c = "t" -> "T"
    [] c = "u" -> "U" [] c = "v" -> "V" [] c = "w" -> "W" [] c = "x" -> "X"
    [] c = "y" -> "Y" [] c = "z" -> "Z"]

\* String.prototype.toUpperCase / toLowerCase on a string given as its characters
ToUpperCase(s) == [k \in 1..Len(s) |-> IF s[k] \in LowerChars THEN UpperOf[s[k]] ELSE s[k]]
ToLowerCase(s) == [k \in 1..Len(s) |->
  IF s[k] \in UpperChars THEN CHOOSE c \in LowerChars : UpperOf[c] = s[k] ELSE s[k]]

\* express-validator isEmail, on the addresses of the model: one "@" with a
\* non-empty local part before it and a non-empty domain after it
IsEmail(s) ==
  /\ Cardinality({k \in 1..Len(s) : s[k] = "@"}) = 1
  /\ s[1] # "@"
  /\ s[Len(s)] # "@"

\* Number.prototype.toString on a non-negative integer: its decimal digits
RECURSIVE toString(_)
toString(n) ==
  IF n < 10 THEN <<n>> ELSE Append(toString(n \div 10), n % 10)

\* Math.random() returns r / RandDenom for an r of Rands, 0 <= r < RandDenom: the
\* least and the greatest value at the resolution at which each code has one r
RandDenom == 900000
Rands == {0, RandDenom - 1}

\* (a draw without the offset: Math.floor(Math.random() * 900000))
DrawCodeSinBase(r) == toString((r * 900) \div (RandDenom \div 1000))

\* Math.floor(100000 + Math.random() * 900000).toString(); the product
\* r / RandDenom * 900000 is written with both terms of the fraction divided
\* by 1000, which keeps it within 32-bit integers
DrawCode(r) == toString(100000 + ((r * 900) \div (RandDenom \div 1000)))

\* jwt.sign({ code }, JWT_SECRET, { noTimestamp: true }): no iat, so the token
\* is a function of the code string and the secret alone
JwtSign(code) == [code |-> code, secret |-> "JWT_SECRET"]

\* bcrypt.genSalt / bcrypt.hash / bcrypt.compare
Salts == {"s1"}
BcryptHash(data, salt) == [salt |-> salt, data |-> data]
BcryptCompare(data, hash) == hash.data = data


(***************************************************************************)
(* Requests                                                                *)
(***************************************************************************)
eA == <<"a","@","b">>
eAup == <<"A","@","b">>
eC == <<"c","@","d">>
eBad == <<"a","b">>
\* req.body.email / req.body.correo_electronico
Emails == {eAup, eC, eBad}

\* req.body.fecha_nacimiento; "x" is no ISO 8601 date
Fechas == {"2000-01-01", "1999-12-31", "x"}
IsISO8601(f) == f # "x"

pwGood == <<"A","b","c","d","e","f","1","!">>
pwOther == <<"Z","y","x","w","v","u","9","?">>
pwHash == <<"A","b","c","d","e","f","1","#">>
pwShort == <<"A","b","1","!">>
\* req.body.password
Passwords == {pwGood, pwOther, pwHash, pwShort}
\* req.body.confirmPassword
Confirmaciones == {pwGood, pwOther, <<>>}

\* req.body.codigo: the codes enviarCodigo can draw and a five-digit string
Codigos == {DrawCode(r) : r \in Rands} \cup {<<1,2,3,4,5>>}

\* crypto.createHash("sha1").update(password).digest("hex"): a fixed digest per
\* password, written with 5 + 3 hexadecimal characters in place of 5 + 35
Sha1Hex(password) ==
  CASE password = pwGood -> <<"5","b","a","a","6","1","e","4">>
    [] password = pwOther -> <<"7","c","4","a","8","d","0","9">>
    [] password = pwHash -> <<"0","0","f","f","1","2","a","b">>
    [] OTHER -> <<"a","9","4","a","8","f","e","5">>

\* the value of a decimal digit and the digit of a value
DigitValue == [c \in DigitChars |->
  CASE c = "0" -> 0 [] c = "1" -> 1 [] c = "2" -> 2 [] c = "3" -> 3 [] c = "4" -> 4
    [] c = "5" -> 5 [] c = "6" -> 6 [] c = "7" -> 7 [] c = "8" -> 8 [] c = "9" -> 9]
DigitChar == [d \in 0..9 |-> CHOOSE c \in DigitChars : DigitValue[c] = d]

\* the white space String.prototype.trim removes and parseInt skips
WhiteSpace == {" ", "\t", "\r", "\n"}

\* String.prototype.split(sep) with a separator of one character: the pieces
\* between its occurrences
RECURSIVE Split(_, _)
Split(s, sep) ==
  IF \A k \in 1..Len(s) : s[k] # sep THEN <<s>>
  ELSE LET k == CHOOSE j \in 1..Len(s) : s[j] = sep /\ \A m \in 1..(j - 1) : s[m] # sep
       IN <<SubSeq(s, 1, k - 1)>> \o Split(SubSeq(s, k + 1, Len(s)), sep)

\* String.prototype.trim
Trim(s) ==
  LET keep == {k \in 1..Len(s) : s[k] \notin WhiteSpace} IN
    IF keep = {} THEN <<>>
    ELSE SubSeq(s, CHOOSE k \in keep : \A m \in keep : k <= m,
                   CHOOSE k \in keep : \A m \in keep : k >= m)

\* the number a string of decimal digits writes
RECURSIVE DecimalValue(_)
DecimalValue(ds) ==
  IF ds = <<>> THEN 0
  ELSE 10 * DecimalValue(SubSeq(ds, 1, Len(ds) - 1)) + DigitValue[ds[Len(ds)]]

\* parseInt(s, 10): leading white space is skipped, then a sign, then the
\* longest run of digits is read; NaN (NULL) when there is no digit
parseInt(s) ==
  LET lead == {k \in 1..Len(s) : \A m \in 1..k : s[m] \in WhiteSpace}
      t == SubSeq(s, Cardinality(lead) + 1, Len(s))
      signed == Len(t) > 0 /\ t[1] \in {"-", "+"}
      ds == IF signed THEN Tail(t) ELSE t
      n == Cardinality({k \in 1..Len(ds) : \A m \in 1..k : ds[m] \in DigitChars})
  IN IF n = 0 THEN NULL
     ELSE Some((IF signed /\ t[1] = "-" THEN -1 ELSE 1) * DecimalValue(SubSeq(ds, 1, n)))

\* a line of the body of GET /range/{prefix}: SUFFIX:COUNT
HibpLine(sfx, n) ==
  LET ds == toString(n) IN sfx \o <<":">> \o [k \in 1..Len(ds) |-> DigitChar[ds[k]]]

\* the end of a line of the body
CRLF == <<"\r", "\n">>

\* the replies of the breach service: response.data, the text of the body;
\* ok = FALSE is a request that threw
HibpDown == [ok |-> FALSE, data |-> <<>>]
HibpGoodPwned == [ok |-> TRUE,
                  data |-> HibpLine(<<"F","F","F">>, 3) \o CRLF \o HibpLine(<<"1","E","4">>, 5)]
HibpGoodZero == [ok |-> TRUE, data |-> HibpLine(<<"1","E","4">>, 0)]
HibpReplies == {HibpDown, HibpGoodPwned, HibpGoodZero}

\* (a loop that takes a line with the digest's suffix as a hit, whatever its count)
RECURSIVE PwnedScanSinCuenta(_, _, _)
PwnedScanSinCuenta(lines, suffix, k) ==
  IF k > Len(lines) THEN FALSE
  ELSE IF Trim(Split(lines[k], ":")[1]) = suffix THEN TRUE
  ELSE PwnedScanSinCuenta(lines, suffix, k + 1)

\* the loop of isPasswordPwned over lines k..: the first line whose trimmed
\* first field is the digest's suffix decides. A line with no ":" leaves count
\* undefined, count.trim() throws and the catch block returns false
RECURSIVE PwnedScan(_, _, _)
PwnedScan(lines, suffix, k) ==
  IF k > Len(lines) THEN FALSE
  ELSE LET fields == Split(lines[k], ":")
           hashSuffix == fields[1]
       IN IF Trim(hashSuffix) = suffix
          THEN IF Len(fields) < 2 THEN FALSE
               ELSE LET count == parseInt(Trim(fields[2])) IN count # NULL /\ count[1] > 0
          ELSE PwnedScan(lines, suffix, k + 1)

\* (a check that reports every password compromised when the request fails)
isPasswordPwnedCerrado(password, hibp) ==
  LET sha1Hash == ToUpperCase(Sha1Hex(password))
      suffix == SubSeq(sha1Hash, 6, Len(sha1Hash))
  IN IF hibp.ok THEN PwnedScan(Split(hibp.data, "\n"), suffix, 1) ELSE TRUE

isPasswordPwned(password, hibp) ==
  LET sha1Hash == ToUpperCase(Sha1Hex(password))
      suffix == SubSeq(sha1Hash, 6, Len(sha1Hash))
  IN IF hibp.ok THEN PwnedScan(Split(hibp.data, "\n"), suffix, 1) ELSE FALSE

\* /^(?=.*[a-z])(?=.*[A-Z])(?=.*\d)(?=.*[@$!%*?&])[A-Za-z\d@$!%*?&]{8,}$/
passwordRegex(password) ==
  LET chars == {password[k] : k \in 1..Len(password)} IN
  /\ chars \cap LowerChars # {}
  /\ chars \cap UpperChars # {}
  /\ chars \cap DigitChars # {}
  /\ chars \cap SpecialChars # {}
  /\ chars \subseteq (LowerChars \cup UpperChars \cup DigitChars \cup SpecialChars)
  /\ Len(password) >= 8

(***************************************************************************)
(* Rows and queries                                                        *)
(***************************************************************************)
\* SELECT ... FROM autenticacion_usuarios WHERE correo_electronico = ?
RowsByCorreo(a, correo) == {i \in DOMAIN a : a[i].correo_electronico = correo}

\* (a join with no ON a.id = p.id)
RowsByCorreoFechaSinOn(a, p, correo, fecha) ==
  {i \in DOMAIN a :
     a[i].correo_electronico = correo /\ \E j \in DOMAIN p : p[j].fecha_nacimiento = fecha}

\* ... JOIN perfil_usuarios p ON a.id = p.id WHERE a.correo_electronico = ?
\*     AND p.fecha_nacimiento = ?
RowsByCorreoFecha(a, p, correo, fecha) ==
  {i \in DOMAIN a \cap DOMAIN p :
     a[i].correo_electronico = correo /\ p[i].fecha_nacimiento = fecha}

\* new Date(fecha_codigo_verificacion).getTime(): new Date(null) is the epoch
GetTime(fecha) == IF fecha = NULL THEN 0 ELSE fecha[1]

\* (a check that already fails at the limit)
CodigoExpiradoAlLimite(t, fecha) == t - GetTime(fecha) >= TTL_VERIFY

\* the check of validarCodigo:
\* Date.now() - new Date(fecha_codigo_verificacion).getTime() > 10 * 60 * 1000
CodigoExpirado(t, fecha) == t - GetTime(fecha) > TTL_VERIFY

\* diffMinutes = (now - codeDate) / (1000 * 60); diffMinutes > minutos: the
\* quotient of two integers exceeds the integer minutos exactly when the
\* dividend exceeds minutos * (1000 * 60)
DiffMinutesMayor(t, fecha, minutos) == t - GetTime(fecha) > minutos * MsPerMin

\* (a check of verificarCodigo that already fails at the limit)
VerificacionExpiradaAlLimite(t, fecha) == t - GetTime(fecha) >= TTL_VERIFY_MIN * MsPerMin

\* the check of verificarCodigo: diffMinutes > 10
VerificacionExpirada(t, fecha) == DiffMinutesMayor(t, fecha, TTL_VERIFY_MIN)

\* (a check of actualizarContrasena with the window of verificarCodigo)
CambioExpiradoDiez(t, fecha) == DiffMinutesMayor(t, fecha, TTL_VERIFY_MIN)

\* the check of actualizarContrasena: diffMinutes > 15
CambioExpirado(t, fecha) == DiffMinutesMayor(t, fecha, TTL_RESET_MIN)

\* what a handler did: the tables after it, the response (status and text),
\* the row it resolved (0: none) and the code it handed to the mailer (NULL: none)
Done(a, p, status, msg, id, code) ==
  [auth |-> a, perfil |-> p, status |-> status, msg |-> msg, id |-> id, code |-> code]


(***************************************************************************)
(* consultas/recuperarContrasena.js                                        *)
(***************************************************************************)
\* POST /verificarCorreoCaptcha; google is the outcome of the siteverify call:
\* "success", "failure" (success: false) or "throws"
verificarCorreoCaptcha(a, p, email, tokenCaptcha, google) ==
  IF ~IsEmail(email) \/ tokenCaptcha = ""
  THEN Done(a, p, 400, "errors", 0, NULL)
  ELSE IF google = "throws"
  THEN Done(a, p, 500, "Error interno del servidor.", 0, NULL)
  ELSE IF google # "success"
  THEN Done(a, p, 400, "reCAPTCHA invalido. Por favor, intentelo de nuevo.", 0, NULL)
  ELSE LET rows == RowsByCorreo(a, ToLowerCase(email)) IN
    IF rows = {}
    THEN Done(a, p, 404, "No existe una cuenta asociada a este correo electronico.", 0, NULL)
    ELSE LET id == CHOOSE i \in rows : TRUE
             user == a[id] IN
      IF user.registro_completado # 1
      THEN Done(a, p, 400, "Esta cuenta no ha completado el proceso de registro.", id, NULL)
      ELSE IF user.estatus # "Activo"
      THEN Done(a, p, 400, "Esta cuenta no esta activa. Contacte al administrador.", id, NULL)
      ELSE Done(a, p, 200, "Correo verificado correctamente.", id, NULL)

\* (a store that keeps the challenge already on the row)
GuardarCodigoSiVacio(a, userId, hashedToken, t) ==
  IF a[userId].codigo_verificacion = NULL
  THEN [a EXCEPT ![userId].codigo_verificacion = Some(hashedToken),
                 ![userId].fecha_codigo_verificacion = Some(t)]
  ELSE a

\* (an update that asks for a new verification with the new code)
GuardarCodigoSinVerificar(a, userId, hashedToken, t) ==
  [a EXCEPT ![userId].codigo_verificacion = Some(hashedToken),
            ![userId].fecha_codigo_verificacion = Some(t),
            ![userId].verificado = 0]

\* (an update that keeps the date of the challenge it overwrites)
GuardarCodigoPrimeraFecha(a, userId, hashedToken, t) ==
  [a EXCEPT ![userId].codigo_verificacion = Some(hashedToken),
            ![userId].fecha_codigo_verificacion =
              IF a[userId].fecha_codigo_verificacion = NULL THEN Some(t)
              ELSE a[userId].fecha_codigo_verificacion]

\* UPDATE autenticacion_usuarios SET codigo_verificacion = ?,
\*   fecha_codigo_verificacion = NOW() WHERE id = ?
GuardarCodigo(a, userId, hashedToken, t) ==
  [a EXCEPT ![userId].codigo_verificacion = Some(hashedToken),
            ![userId].fecha_codigo_verificacion = Some(t)]

\* POST /enviarCodigo of the recovery router; r is the random draw, salt the
\* bcrypt salt, t the time of the request, mailOk whether sendMail resolves
enviarCodigoRecuperar(a, p, email, r, salt, t, mailOk) ==
  IF ~IsEmail(email)
  THEN Done(a, p, 400, "errors", 0, NULL)
  ELSE LET rows == RowsByCorreo(a, ToLowerCase(email)) IN
    IF rows = {}
    THEN Done(a, p, 404, "Usuario no valido para recuperacion de contrasena.", 0, NULL)
    ELSE LET userId == CHOOSE i \in rows : TRUE IN
      IF a[userId].registro_completado # 1 \/ a[userId].estatus # "Activo"
      THEN Done(a, p, 404, "Usuario no valido para recuperacion de contrasena.", userId, NULL)
      ELSE LET code == DrawCode(r)
               hashedToken == BcryptHash(JwtSign(code), salt)
               stored == GuardarCodigo(a, userId, hashedToken, t) IN
        IF mailOk
        THEN Done(stored, p, 200,
                  "Codigo de recuperacion enviado exitosamente a su correo electronico.",
                  userId, Some(code))
        ELSE Done(stored, p, 500, "Error interno al enviar el codigo de recuperacion.",
                  userId, Some(code))

\* POST /verificarCodigo
verificarCodigo(a, p, email, codigo, t) ==
  IF ~IsEmail(email) \/ Len(codigo) # 6
  THEN Done(a, p, 400, "errors", 0, NULL)
  ELSE LET rows == RowsByCorreo(a, ToLowerCase(email)) IN
    IF rows = {}
    THEN Done(a, p, 404, "Usuario no encontrado.", 0, NULL)
    ELSE LET id == CHOOSE i \in rows : TRUE
             user == a[id] IN
      IF user.codigo_verificacion = NULL \/ user.fecha_codigo_verificacion = NULL
      THEN Done(a, p, 400,
                "No se ha solicitado recuperacion de contrasena para este usuario.", id, NULL)
      ELSE IF VerificacionExpirada(t, user.fecha_codigo_verificacion)
      THEN Done(a, p, 400, "El codigo ha expirado. Solicite uno nuevo.", id, NULL)
      ELSE IF ~BcryptCompare(JwtSign(codigo), user.codigo_verificacion[1])
      THEN Done(a, p, 400, "Codigo incorrecto. Verifique e intente nuevamente.", id, NULL)
      ELSE Done(a, p, 200,
                "Codigo verificado correctamente. Puede proceder a cambiar su contrasena.",
                id, NULL)

\* (an update with no WHERE id = ?)
GuardarContrasenaSinWhere(a, id, hashedPassword, t) ==
  [i \in DOMAIN a |-> [a[i] EXCEPT !.contrasena = Some(hashedPassword),
                                   !.codigo_verificacion = NULL,
                                   !.fecha_codigo_verificacion = NULL,
                                   !.fecha_actualizacion = Some(t)]]

\* (an update that clears the hash and leaves its date)
GuardarContrasenaSoloCodigo(a, id, hashedPassword, t) ==
  [a EXCEPT ![id].contrasena = Some(hashedPassword),
            ![id].codigo_verificacion = NULL,
            ![id].fecha_actualizacion = Some(t)]

\* (an update that leaves the challenge on the row)
GuardarContrasenaSinLimpiar(a, id, hashedPassword, t) ==
  [a EXCEPT ![id].contrasena = Some(hashedPassword),
            ![id].fecha_actualizacion = Some(t)]

\* UPDATE autenticacion_usuarios SET contrasena = ?, codigo_verificacion = NULL,
\*   fecha_codigo_verificacion = NULL, fecha_actualizacion = NOW() WHERE id = ?
GuardarContrasena(a, id, hashedPassword, t) ==
  [a EXCEPT ![id].contrasena = Some(hashedPassword),
            ![id].codigo_verificacion = NULL,
            ![id].fecha_codigo_verificacion = NULL,
            ![id].fecha_actualizacion = Some(t)]

\* POST /actualizarContrasena
actualizarContrasena(a, p, email, password, confirmPassword, hibp, salt, t) ==
  IF ~IsEmail(email) \/ Len(password) < 8 \/ confirmPassword = <<>>
  THEN Done(a, p, 400, "errors", 0, NULL)
  ELSE IF password # confirmPassword
  THEN Done(a, p, 400, "Las contrasenas no coinciden.", 0, NULL)
  ELSE IF ~passwordRegex(password)
  THEN Done(a, p, 400, "La contrasena debe tener al menos 8 caracteres, ...", 0, NULL)
  ELSE IF isPasswordPwned(password, hibp)
  THEN Done(a, p, 400, "Esta contrasena ha sido comprometida en filtraciones de datos.",
            0, NULL)
  ELSE LET rows == RowsByCorreo(a, ToLowerCase(email)) IN
    IF rows = {}
    THEN Done(a, p, 404, "Usuario no encontrado.", 0, NULL)
    ELSE LET id == CHOOSE i \in rows : TRUE
             user == a[id] IN
      IF user.codigo_verificacion = NULL \/ user.fecha_codigo_verificacion = NULL
      THEN Done(a, p, 400,
                "Debe verificar el codigo de recuperacion antes de cambiar la contrasena.",
                id, NULL)
      ELSE IF CambioExpirado(t, user.fecha_codigo_verificacion)
      THEN Done(a, p, 400, "El proceso de recuperacion ha expirado. Inicie nuevamente.",
                id, NULL)
      ELSE Done(GuardarContrasena(a, id, BcryptHash(password, salt), t), p, 200,
                "Contrasena actualizada exitosamente.", id, NULL)


(***************************************************************************)
(* consultas/registro.js                                                   *)
(***************************************************************************)
\* POST /checkPasswordCompromised
checkPasswordCompromised(a, p, password, hibp) ==
  IF password = <<>>
  THEN Done(a, p, 400, "errors", 0, NULL)
  ELSE IF isPasswordPwned(password, hibp)
  THEN Done(a, p, 400, "La contrasena ha sido comprometida. Por favor, elige otra.", 0, NULL)
  ELSE Done(a, p, 200, "Contrasena segura.", 0, NULL)

\* (a handler that sends a code to completed rows too)
enviarCodigoRegistroSiempre(a, p, correo_electronico, fecha_nacimiento, r, salt, t, mailOk) ==
  IF ~IsEmail(correo_electronico) \/ ~IsISO8601(fecha_nacimiento)
  THEN Done(a, p, 400, "errors", 0, NULL)
  ELSE LET rows == RowsByCorreoFecha(a, p, ToLowerCase(correo_electronico), fecha_nacimiento) IN
    IF rows = {}
    THEN Done(a, p, 404, "Usuario no encontrado", 0, NULL)
    ELSE LET userId == CHOOSE i \in rows : TRUE
             code == DrawCode(r)
             hashedToken == BcryptHash(JwtSign(code), salt)
             stored == GuardarCodigo(a, userId, hashedToken, t) IN
      IF mailOk
      THEN Done(stored, p, 200, "Codigo de verificacion enviado exitosamente.",
                userId, Some(code))
      ELSE Done(stored, p, 500, "Error al enviar el codigo de verificacion.",
                userId, Some(code))

\* (a handler that looks the address up first and tells a wrong birthdate apart)
enviarCodigoRegistroDosPasos(a, p, correo_electronico, fecha_nacimiento, r, salt, t, mailOk) ==
  IF ~IsEmail(correo_electronico) \/ ~IsISO8601(fecha_nacimiento)
  THEN Done(a, p, 400, "errors", 0, NULL)
  ELSE IF RowsByCorreo(a, ToLowerCase(correo_electronico)) = {}
  THEN Done(a, p, 404, "Usuario no encontrado", 0, NULL)
  ELSE LET rows == RowsByCorreoFecha(a, p, ToLowerCase(correo_electronico), fecha_nacimiento) IN
    IF rows = {}
    THEN Done(a, p, 400, "Fecha de nacimiento incorrecta", 0, NULL)
    ELSE LET userId == CHOOSE i \in rows : TRUE IN
      IF a[userId].registro_completado = 1
      THEN Done(a, p, 400, "Usuario ya registrado", userId, NULL)
      ELSE LET code == DrawCode(r)
               hashedToken == BcryptHash(JwtSign(code), salt)
               stored == GuardarCodigo(a, userId, hashedToken, t) IN
        IF mailOk
        THEN Done(stored, p, 200, "Codigo de verificacion enviado exitosamente.",
                  userId, Some(code))
        ELSE Done(stored, p, 500, "Error al enviar el codigo de verificacion.",
                  userId, Some(code))

\* POST /enviarCodigo of the registration router; mailOk is whether
\* resend.emails.send returns no error
enviarCodigoRegistro(a, p, correo_electronico, fecha_nacimiento, r, salt, t, mailOk) ==
  IF ~IsEmail(correo_electronico) \/ ~IsISO8601(fecha_nacimiento)
  THEN Done(a, p, 400, "errors", 0, NULL)
  ELSE LET rows == RowsByCorreoFecha(a, p, ToLowerCase(correo_electronico), fecha_nacimiento) IN
    IF rows = {}
    THEN Done(a, p, 404, "Usuario no encontrado", 0, NULL)
    ELSE LET userId == CHOOSE i \in rows : TRUE IN
      IF a[userId].registro_completado = 1
      THEN Done(a, p, 400, "Usuario ya registrado", userId, NULL)
      ELSE LET code == DrawCode(r)
               hashedToken == BcryptHash(JwtSign(code), salt)
               stored == GuardarCodigo(a, userId, hashedToken, t) IN
        IF mailOk
        THEN Done(stored, p, 200, "Codigo de verificacion enviado exitosamente.",
                  userId, Some(code))
        ELSE Done(stored, p, 500, "Error al enviar el codigo de verificacion.",
                  userId, Some(code))

\* UPDATE autenticacion_usuarios SET verificado = 1 WHERE id = ?
MarcarVerificado(a, id) == [a EXCEPT ![id].verificado = 1]

\* (a handler that drops the challenge when the code is wrong)
validarCodigoUnIntento(a, p, correo_electronico, codigo, t) ==
  IF ~IsEmail(correo_electronico) \/ Len(codigo) # 6
  THEN Done(a, p, 400, "errors", 0, NULL)
  ELSE LET rows == RowsByCorreo(a, ToLowerCase(correo_electronico)) IN
    IF rows = {}
    THEN Done(a, p, 404, "Usuario no encontrado", 0, NULL)
    ELSE LET id == CHOOSE i \in rows : TRUE
             user == a[id] IN
      IF CodigoExpirado(t, user.fecha_codigo_verificacion)
      THEN Done(a, p, 400, "El codigo ha expirado", id, NULL)
      ELSE IF user.codigo_verificacion = NULL
      THEN Done(a, p, 500, "Error interno al validar el codigo.", id, NULL)
      ELSE IF ~BcryptCompare(JwtSign(codigo), user.codigo_verificacion[1])
      THEN Done([a EXCEPT ![id].codigo_verificacion = NULL,
                          ![id].fecha_codigo_verificacion = NULL],
                p, 400, "Codigo incorrecto", id, NULL)
      ELSE Done(MarcarVerificado(a, id), p, 200, "Codigo verificado correctamente.", id, NULL)

\* POST /validarCodigo
validarCodigo(a, p, correo_electronico, codigo, t) ==
  IF ~IsEmail(correo_electronico) \/ Len(codigo) # 6
  THEN Done(a, p, 400, "errors", 0, NULL)
  ELSE LET rows == RowsByCorreo(a, ToLowerCase(correo_electronico)) IN
    IF rows = {}
    THEN Done(a, p, 404, "Usuario no encontrado", 0, NULL)
    ELSE LET id == CHOOSE i \in rows : TRUE
             user == a[id] IN
      IF CodigoExpirado(t, user.fecha_codigo_verificacion)
      THEN Done(a, p, 400, "El codigo ha expirado", id, NULL)
      \* bcrypt.compare(candidateToken, null) throws
      ELSE IF user.codigo_verificacion = NULL
      THEN Done(a, p, 500, "Error interno al validar el codigo.", id, NULL)
      ELSE IF ~BcryptCompare(JwtSign(codigo), user.codigo_verificacion[1])
      THEN Done(a, p, 400, "Codigo incorrecto", id, NULL)
      ELSE Done(MarcarVerificado(a, id), p, 200, "Codigo verificado correctamente.", id, NULL)

\* req.body of /actualizarUsuario without correo_electronico and password: the
\* fields firstName and gender, the other validated fields being well-formed
PerfilBueno == [firstName |-> "Ana", gender |-> "Femenino"]
Perfiles == {PerfilBueno,
             [firstName |-> "", gender |-> "Femenino"],
             [firstName |-> "Ana", gender |-> "x"]}
PerfilValido(d) == d.firstName # "" /\ d.gender \in {"Masculino", "Femenino", "Otro"}

\* (an update that marks the row verified as well)
CompletarRegistroVerificado(a, userId, hashedPassword) ==
  [a EXCEPT ![userId].contrasena = Some(hashedPassword),
            ![userId].registro_completado = 1,
            ![userId].verificado = 1]

\* (an update that stores the password and leaves the registration pending)
CompletarRegistroSinMarca(a, userId, hashedPassword) ==
  [a EXCEPT ![userId].contrasena = Some(hashedPassword)]

\* UPDATE autenticacion_usuarios SET contrasena = ?, registro_completado = 1 WHERE id = ?
CompletarRegistro(a, userId, hashedPassword) ==
  [a EXCEPT ![userId].contrasena = Some(hashedPassword),
            ![userId].registro_completado = 1]

\* UPDATE perfil_usuarios SET nombre = ?, ..., genero = ?, ..., rol_sindicato_id = 1, ...
\*   WHERE id = ?
GuardarPerfil(p, userId, d) ==
  [p EXCEPT ![userId].nombre = Some(d.firstName),
            ![userId].genero = Some(d.gender),
            ![userId].rol_sindicato_id = Some(1)]

\* (a handler that completes the registration of verified rows only)
actualizarUsuarioTrasVerificar(a, p, correo_electronico, password, d, salt) ==
  IF ~IsEmail(correo_electronico) \/ Len(password) < 8 \/ ~PerfilValido(d)
  THEN Done(a, p, 400, "errors", 0, NULL)
  ELSE LET rows == RowsByCorreo(a, ToLowerCase(correo_electronico)) IN
    IF rows = {}
    THEN Done(a, p, 404, "Usuario no encontrado", 0, NULL)
    ELSE LET userId == CHOOSE i \in rows : TRUE IN
      IF a[userId].verificado # 1
      THEN Done(a, p, 400, "Correo no verificado", userId, NULL)
      ELSE Done(CompletarRegistro(a, userId, BcryptHash(password, salt)),
                GuardarPerfil(p, userId, d), 200,
                "Usuario actualizado y registro completado.", userId, NULL)

\* POST /actualizarUsuario
actualizarUsuario(a, p, correo_electronico, password, d, salt) ==
  IF ~IsEmail(correo_electronico) \/ Len(password) < 8 \/ ~PerfilValido(d)
  THEN Done(a, p, 400, "errors", 0, NULL)
  ELSE LET rows == RowsByCorreo(a, ToLowerCase(correo_electronico)) IN
    IF rows = {}
    THEN Done(a, p, 404, "Usuario no encontrado", 0, NULL)
    ELSE LET userId == CHOOSE i \in rows : TRUE IN
      Done(CompletarRegistro(a, userId, BcryptHash(password, salt)),
           GuardarPerfil(p, userId, d), 200,
           "Usuario actualizado y registro completado.", userId, NULL)



\* what a handler that writes nothing answered: the status and the body
Respuesta(status, body) == [status |-> status, body |-> body]

\* an exception thrown by pool.query or by the mailer
ErrorDePrueba == [message |-> "connect ECONNREFUSED 127.0.0.1:3306",
                  stack |-> "Error: connect ECONNREFUSED 127.0.0.1:3306 at TCPConnectWrap"]

\* GET /test-email-registro; envio is how resend.emails.send ends: the mail is
\* accepted, send returns { error }, or the call throws
testEmailRegistro(envio) ==
  IF envio = "ok"
  THEN Respuesta(200, [ok |-> "true",
                       message |-> "Email de prueba enviado correctamente con Resend"])
  ELSE IF envio = "error"
  THEN Respuesta(500, [ok |-> "false", error_message |-> ErrorDePrueba.message])
  ELSE Respuesta(500, [ok |-> "false", error_message |-> ErrorDePrueba.message,
                       error_stack |-> ErrorDePrueba.stack])

\* SELECT ... FROM autenticacion_usuarios AS a JOIN perfil_usuarios AS p ON a.id = p.id
\*   WHERE a.correo_electronico = ?
RowsByCorreoJoin(a, p, correo) ==
  {i \in DOMAIN a \cap DOMAIN p : a[i].correo_electronico = correo}

\* ... AND (DATE(p.fecha_nacimiento) = ? OR p.fecha_nacimiento = ?
\*          OR DATE_FORMAT(p.fecha_nacimiento, '%Y-%m-%d') = ?): fecha_nacimiento
\* is a date, which DATE() and DATE_FORMAT() give back as it is
RowsByCorreoFechaFlexible(a, p, correo, fecha) ==
  {i \in DOMAIN a \cap DOMAIN p :
     /\ a[i].correo_electronico = correo
     /\ \/ p[i].fecha_nacimiento = fecha
        \/ p[i].fecha_nacimiento = fecha
        \/ p[i].fecha_nacimiento = fecha}

\* the answer of validarUsuario for the row it found
UsuarioEncontrado(a, id) ==
  IF a[id].registro_completado = 1
  THEN Respuesta(400, [exists |-> "true", registered |-> "true",
                       message |-> "Usuario ya completo el registro"])
  ELSE Respuesta(200, [exists |-> "true", registered |-> "false", id |-> id])

\* POST /validarUsuario; the validators trim and lower-case correo_electronico
\* before isEmail; falla: the first query throws
validarUsuario(a, p, correo_electronico, fecha_nacimiento, falla) ==
  LET correo == ToLowerCase(Trim(correo_electronico)) IN
  IF ~IsEmail(correo) \/ ~IsISO8601(fecha_nacimiento)
  THEN Respuesta(400, [success |-> "false", errors |-> "errors"])
  ELSE IF falla
  THEN Respuesta(500, [error |-> "Error al validar usuario", details |-> ErrorDePrueba.message])
  ELSE LET exactRows == RowsByCorreoJoin(a, p, correo)
           rows == RowsByCorreoFecha(a, p, correo, fecha_nacimiento)
           flexibleRows == RowsByCorreoFechaFlexible(a, p, correo, fecha_nacimiento)
       IN IF rows = {} /\ exactRows # {} /\ flexibleRows # {}
          THEN UsuarioEncontrado(a, CHOOSE i \in flexibleRows : TRUE)
          ELSE IF rows = {}
          THEN Respuesta(404, [exists |-> "false", message |-> "Usuario no encontrado",
                               debug_correo_buscado |-> correo,
                               debug_fecha_buscada |-> fecha_nacimiento,
                               debug_usuarios_con_email |-> Cardinality(exactRows)])
          ELSE UsuarioEncontrado(a, CHOOSE i \in rows : TRUE)

(***************************************************************************)
(* consultas/preguntas.js                                                  *)
(***************************************************************************)
\* the questions mensajes_contacto holds at most, and the answers
\* mensajes_contacto_respuestas holds at most
MaxMensajes == 2
MaxRespuestas == 2

\* process.env.NODE_ENV
NodeEnvs == {"development", "production"}

\* req.body.respuesta / req.body.mensaje
tOk == <<"o","k">>
tOkSp == <<" ","o","k"," ">>
Textos == {<<>>, tOk, tOkSp}

\* req.user after refreshSession: none, the user of row 1 or a user with no row
Sesiones == {NULL, Some(1), Some(2)}

\* what a handler of the preguntas router did: the two tables after it, the
\* response (status and body) and the address it handed to the mailer (NULL: none)
Hecho(m, rs, status, body, mail) ==
  [mensajes |-> m, respuestas |-> rs, status |-> status, body |-> body, mail |-> mail]

\* body(field).notEmpty()
NotEmpty(s) == s # <<>>

\* the value of estado of a row the INSERT does not set it for: the column default
EstadoInicial == "pendiente"

\* INSERT INTO mensajes_contacto (id_usuario, nombre, ..., correo_electronico, ..., mensaje)
InsertarMensaje(m, id_usuario, nombre, correo, mensaje) ==
  Append(m, [id_usuario |-> id_usuario, nombre |-> nombre, correo_electronico |-> correo,
             mensaje |-> mensaje, estado |-> EstadoInicial])

\* INSERT INTO mensajes_contacto_respuestas (mensaje_id, respuesta, respondido_por)
InsertarRespuesta(rs, mensajeId, respuesta, respondidoPor) ==
  Append(rs, [mensaje_id |-> mensajeId, respuesta |-> respuesta,
              respondido_por |-> respondidoPor])

\* UPDATE mensajes_contacto SET estado = 'respondido' WHERE id = ?
MarcarRespondido(m, mensajeId) == [m EXCEPT ![mensajeId].estado = "respondido"]

\* the catch block of POST /:id/responder
CatchResponder(err, nodeEnv) ==
  IF nodeEnv = "development"
  THEN [error |-> "Error interno al responder la pregunta.", details |-> err.message]
  ELSE [error |-> "Error interno al responder la pregunta."]

\* (a handler that never looks at the result of the validators)
responderSinValidar(m, rs, mensajeId, respuesta, falla, envio, nodeEnv) ==
  IF mensajeId \notin DOMAIN m
  THEN Hecho(m, rs, 404, [error |-> "Pregunta no encontrada"], NULL)
  ELSE Hecho(MarcarRespondido(m, mensajeId),
             InsertarRespuesta(rs, mensajeId, Trim(respuesta), m[mensajeId].id_usuario), 200,
             [message |-> "Respuesta guardada correctamente.", emailSent |-> "false"], NULL)

\* (a handler that sends the mail first and stores the answer once it is accepted)
responderEnviaAntes(m, rs, mensajeId, respuesta, falla, envio, nodeEnv) ==
  IF ~NotEmpty(respuesta)
  THEN Hecho(m, rs, 400, [errors |-> "La respuesta es requerida"], NULL)
  ELSE IF falla # 0
  THEN Hecho(m, rs, 500, CatchResponder(ErrorDePrueba, nodeEnv), NULL)
  ELSE IF mensajeId \notin DOMAIN m
  THEN Hecho(m, rs, 404, [error |-> "Pregunta no encontrada"], NULL)
  ELSE LET mensaje == m[mensajeId]
           guardada == InsertarRespuesta(rs, mensajeId, Trim(respuesta), mensaje.id_usuario)
           respondido == MarcarRespondido(m, mensajeId)
       IN IF mensaje.id_usuario # NULL
          THEN Hecho(respondido, guardada, 200,
                     [message |-> "Respuesta guardada correctamente.", emailSent |-> "false"],
                     NULL)
          ELSE IF envio = "ok"
          THEN Hecho(respondido, guardada, 200,
                     [message |-> "Respuesta guardada y enviada por correo.",
                      emailSent |-> "true"],
                     Some(mensaje.correo_electronico))
          ELSE Hecho(m, rs, 500, CatchResponder(ErrorDePrueba, nodeEnv),
                     Some(mensaje.correo_electronico))

\* POST /:id/responder; falla is the query that throws (0: none; 1: the SELECT,
\* 2: the INSERT, 3: the UPDATE), envio how resend.emails.send ends
responder(m, rs, mensajeId, respuesta, falla, envio, nodeEnv) ==
  IF ~NotEmpty(respuesta)
  THEN Hecho(m, rs, 400, [errors |-> "La respuesta es requerida"], NULL)
  ELSE IF falla = 1
  THEN Hecho(m, rs, 500, CatchResponder(ErrorDePrueba, nodeEnv), NULL)
  ELSE IF mensajeId \notin DOMAIN m
  THEN Hecho(m, rs, 404, [error |-> "Pregunta no encontrada"], NULL)
  ELSE LET mensaje == m[mensajeId]
           guardada == InsertarRespuesta(rs, mensajeId, Trim(respuesta), mensaje.id_usuario)
           respondido == MarcarRespondido(m, mensajeId)
       IN IF falla = 2
          THEN Hecho(m, rs, 500, CatchResponder(ErrorDePrueba, nodeEnv), NULL)
          ELSE IF falla = 3
          THEN Hecho(m, guardada, 500, CatchResponder(ErrorDePrueba, nodeEnv), NULL)
          ELSE IF mensaje.id_usuario # NULL
          THEN Hecho(respondido, guardada, 200,
                     [message |-> "Respuesta guardada correctamente.", emailSent |-> "false"],
                     NULL)
          ELSE IF envio = "ok"
          THEN Hecho(respondido, guardada, 200,
                     [message |-> "Respuesta guardada y enviada por correo.",
                      emailSent |-> "true"],
                     Some(mensaje.correo_electronico))
          ELSE Hecho(respondido, guardada, 200,
                     [message |-> "Respuesta guardada, pero hubo un error al enviar el correo.",
                      emailSent |-> "false", warning |-> ErrorDePrueba.message],
                     Some(mensaje.correo_electronico))

\* POST /; falla: the INSERT throws
crearPregunta(m, rs, nombre, apellidoPaterno, email, mensaje, falla) ==
  IF nombre = "" \/ apellidoPaterno = "" \/ ~IsEmail(email) \/ ~NotEmpty(mensaje)
  THEN Hecho(m, rs, 400, [errors |-> "errors"], NULL)
  ELSE IF falla
  THEN Hecho(m, rs, 500, [error |-> "Error interno al crear la pregunta."], NULL)
  ELSE Hecho(InsertarMensaje(m, NULL, Some(nombre), email, mensaje), rs, 201,
             [message |-> "Pregunta creada correctamente"], NULL)

\* requireAuth
NoAutenticado(user) == user = NULL
MsgNoAutenticado == "Usuario no autenticado. Por favor, inicia sesion nuevamente."

\* POST /registrado, after refreshSession has set req.user; falla: the first query throws
crearPreguntaRegistrado(m, rs, a, p, user, mensaje, falla) ==
  IF NoAutenticado(user)
  THEN Hecho(m, rs, 401, [error |-> MsgNoAutenticado], NULL)
  ELSE IF ~NotEmpty(mensaje)
  THEN Hecho(m, rs, 400, [errors |-> "El mensaje es requerido"], NULL)
  ELSE IF falla
  THEN Hecho(m, rs, 500, [error |-> "Error interno al crear la pregunta."], NULL)
  ELSE LET usuarioId == user[1] IN
    IF usuarioId \notin DOMAIN p \cap DOMAIN a
    THEN Hecho(m, rs, 404, [error |-> "Usuario no encontrado."], NULL)
    ELSE Hecho(InsertarMensaje(m, Some(usuarioId), p[usuarioId].nombre,
                               a[usuarioId].correo_electronico, Trim(mensaje)),
               rs, 201,
               [message |-> "Pregunta creada correctamente para usuario registrado."], NULL)

\* (a handler that answers whatever question the session asks for)
responderRegistradoSinDueno(m, rs, user, mensajeId, respuesta, falla) ==
  IF NoAutenticado(user)
  THEN Hecho(m, rs, 401, [error |-> MsgNoAutenticado], NULL)
  ELSE IF ~NotEmpty(respuesta)
  THEN Hecho(m, rs, 400, [errors |-> "errors"], NULL)
  ELSE IF falla
  THEN Hecho(m, rs, 500, [error |-> "Error interno al guardar la respuesta."], NULL)
  ELSE IF mensajeId \notin DOMAIN m
  THEN Hecho(m, rs, 404, [error |-> "Pregunta no encontrada."], NULL)
  ELSE Hecho(MarcarRespondido(m, mensajeId),
             InsertarRespuesta(rs, mensajeId, Trim(respuesta), user), 200,
             [message |-> "Respuesta guardada correctamente."], NULL)

\* POST /:id/responder-registrado; falla: the first query throws
responderRegistrado(m, rs, user, mensajeId, respuesta, falla) ==
  IF NoAutenticado(user)
  THEN Hecho(m, rs, 401, [error |-> MsgNoAutenticado], NULL)
  ELSE IF ~NotEmpty(respuesta)
  THEN Hecho(m, rs, 400, [errors |-> "errors"], NULL)
  ELSE IF falla
  THEN Hecho(m, rs, 500, [error |-> "Error interno al guardar la respuesta."], NULL)
  ELSE IF mensajeId \notin DOMAIN m
  THEN Hecho(m, rs, 404, [error |-> "Pregunta no encontrada."], NULL)
  ELSE IF m[mensajeId].id_usuario # user
  THEN Hecho(m, rs, 403, [error |-> "No autorizado para responder esta pregunta."], NULL)
  ELSE Hecho(MarcarRespondido(m, mensajeId),
             InsertarRespuesta(rs, mensajeId, Trim(respuesta), user), 200,
             [message |-> "Respuesta guardada correctamente."], NULL)

\* POST /:id/responder-admin; falla: the first query throws
responderAdmin(m, rs, mensajeId, respuesta, falla) ==
  IF ~NotEmpty(respuesta)
  THEN Hecho(m, rs, 400, [errors |-> "La respuesta es requerida"], NULL)
  ELSE IF falla
  THEN Hecho(m, rs, 500, [error |-> "Error interno al guardar la respuesta."], NULL)
  ELSE IF mensajeId \notin DOMAIN m
  THEN Hecho(m, rs, 404, [error |-> "Pregunta no encontrada."], NULL)
  ELSE Hecho(MarcarRespondido(m, mensajeId),
             InsertarRespuesta(rs, mensajeId, Trim(respuesta), NULL), 200,
             [message |-> "Respuesta guardada correctamente (admin)."], NULL)


(***************************************************************************)
(* State                                                                   *)
(***************************************************************************)
VARIABLES
  auth,     \* table autenticacion_usuarios, by id
  perfil,   \* table perfil_usuarios, by id
  now,      \* Date.now() / NOW(), in milliseconds
  hist,     \* per row, what the requests handled so far did with its challenge
  enCurso,  \* the enviarCodigo requests being handled step by step
  mensajes,   \* table mensajes_contacto, by id
  respuestas  \* table mensajes_contacto_respuestas, in the order of insertion

vars == <<auth, perfil, now, hist, enCurso, mensajes, respuestas>>

\* the two enviarCodigo requests that run concurrently
Peticiones == {1, 2}

\* A request that has not arrived. pc: "libre", then "leido" (the SELECT is
\* answered, the code drawn and hashed), "guardado" (the UPDATE is applied),
\* "fin" (the response is sent) or "caido" (the process died first);
\* router, userId, code, hashedToken: the locals of the handler; resultado:
\* how sending the mail ended; status: the response.
\* What an observer remembers of it. antes: the row as the UPDATE found it;
\* ultimo: no UPDATE was applied after the one of this request; rival: another
\* request was between its SELECT and its UPDATE when this one's UPDATE was applied;
\* postrero: no mail was sent after the one of this request.
\* For an actualizarContrasena request pc is "libre", then "seleccionado" (the
\* SELECT is answered, every check has passed and the password is hashed) and
\* "fin"; hashedPassword is the local of the handler, leida the challenge the
\* SELECT returned, piso: the UPDATE found another challenge on the row than leida
PeticionLibre ==
  [pc |-> "libre", router |-> "none", userId |-> 0, code |-> NULL, hashedToken |-> NULL,
   resultado |-> "none", status |-> 0, antes |-> NULL, ultimo |-> FALSE, rival |-> FALSE,
   postrero |-> FALSE, hashedPassword |-> NULL, leida |-> NULL, piso |-> FALSE]

CorreoDe(i) == IF i = 1 THEN eA ELSE eC
NacimientoDe(i) == IF i = 1 THEN "2000-01-01" ELSE "1999-12-31"

\* a row imported by the administration: pending (registro_completado = 0, no
\* password) or with its registration completed, active or not
FilaInicial(i, completado, estatus) ==
  [correo_electronico |-> CorreoDe(i),
   contrasena |-> IF completado = 1 THEN Some(BcryptHash(pwOther, "s0")) ELSE NULL,
   registro_completado |-> completado,
   estatus |-> estatus,
   verificado |-> 0,
   codigo_verificacion |-> NULL,
   fecha_codigo_verificacion |-> NULL,
   fecha_actualizacion |-> NULL]

PerfilInicial(i) ==
  [fecha_nacimiento |-> NacimientoDe(i), nombre |-> NULL, genero |-> NULL,
   rol_sindicato_id |-> NULL]

\* What an observer of the requests remembers of the challenge of a row.
\* issued: the code enviarCodigo handed to the mailer last; issuedBy: the router
\* that did; replaced: that challenge overwrote one with another code that had
\* not expired; captcha: verificarCorreoCaptcha answered 200 for the row;
\* regAccepted / codeVerified: validarCodigo / verificarCodigo accepted the
\* challenge; okEdad: its age when one of them last did (-1: never);
\* consumed: actualizarContrasena changed the password with it; consumedEdad:
\* its age at that moment (-1: never).
\* And of the row itself. validado: validarCodigo answered 200 for the row at
\* some time; completadoCon: the value of verificado when actualizarUsuario
\* last answered 200 for the row (-1: never).
\* rechazos: the texts with which validarCodigo refused a code for the
\* challenge of the row since it was issued; trasRechazo: validarCodigo
\* accepted the challenge after it had refused a code for it;
\* caducado: the challenge of the row overwrote one that had expired
HistInicial ==
  [issued |-> NULL, issuedBy |-> "none", replaced |-> FALSE, captcha |-> FALSE,
   regAccepted |-> FALSE, codeVerified |-> FALSE, okEdad |-> -1,
   consumed |-> FALSE, consumedEdad |-> -1,
   validado |-> FALSE, completadoCon |-> -1,
   rechazos |-> {}, trasRechazo |-> FALSE, caducado |-> FALSE]

\* the tables with two rows: row 1 as when it is alone, row 2 pending and active
InitDos ==
  /\ \E c1 \in {0, 1}, e1 \in {"Activo", "Inactivo"} :
       auth = [i \in {1, 2} |-> IF i = 1 THEN FilaInicial(i, c1, e1)
                                         ELSE FilaInicial(i, 0, "Activo")]
  /\ perfil = [i \in {1, 2} |-> PerfilInicial(i)]
  /\ now = StartNow
  /\ hist = [i \in {1, 2} |-> HistInicial]
  /\ enCurso = [k \in Peticiones |-> PeticionLibre]
  /\ mensajes = <<>>
  /\ respuestas = <<>>

\* the rows of the tables: row 1 alone
Init ==
  /\ \E c \in {0, 1}, e \in {"Activo", "Inactivo"} : auth = [i \in {1} |-> FilaInicial(i, c, e)]
  /\ perfil = [i \in {1} |-> PerfilInicial(i)]
  /\ now = StartNow
  /\ hist = [i \in {1} |-> HistInicial]
  /\ enCurso = [k \in Peticiones |-> PeticionLibre]
  /\ mensajes = <<>>
  /\ respuestas = <<>>

\* age at time t of the challenge stored on row i of a (-1: none stored)
Edad(a, i, t) ==
  IF a[i].fecha_codigo_verificacion = NULL THEN -1
  ELSE t - a[i].fecha_codigo_verificacion[1]

\* the code of the challenge stored on row i of a (NULL: none stored)
CodigoGuardado(a, i) ==
  IF a[i].codigo_verificacion = NULL THEN NULL
  ELSE Some(a[i].codigo_verificacion[1].data.code)

\* the history of row i after request op, handled at time t, ended as r
HistAfter(i, op, r, t) ==
  IF r.id # i THEN hist[i]
  ELSE IF r.code # NULL
  THEN [hist[i] EXCEPT
          !.issued = r.code,
          !.issuedBy = IF op = "enviarCodigoRegistro" THEN "registro" ELSE "recuperar",
          !.replaced = /\ CodigoGuardado(auth, i) \notin {NULL, r.code}
                       /\ Edad(auth, i, t) <= TTL_VERIFY,
          !.regAccepted = FALSE, !.codeVerified = FALSE, !.okEdad = -1,
          !.consumed = FALSE, !.consumedEdad = -1,
          !.rechazos = {}, !.trasRechazo = FALSE,
          !.caducado = CodigoGuardado(auth, i) # NULL /\ Edad(auth, i, t) > TTL_VERIFY]
  ELSE IF op = "verificarCodigo" /\ r.status = 200
  THEN [hist[i] EXCEPT !.codeVerified = TRUE, !.okEdad = Edad(auth, i, t)]
  ELSE IF op = "validarCodigo" /\ r.status = 200
  THEN [hist[i] EXCEPT !.regAccepted = TRUE, !.okEdad = Edad(auth, i, t),
                       !.validado = TRUE,
                       !.trasRechazo = @ \/ hist[i].rechazos # {}]
  ELSE IF op = "validarCodigo" /\ r.status = 400 /\ CodigoGuardado(auth, i) # NULL
  THEN [hist[i] EXCEPT !.rechazos = @ \cup {r.msg}]
  ELSE IF op = "actualizarUsuario" /\ r.status = 200
  THEN [hist[i] EXCEPT !.completadoCon = auth[i].verificado]
  ELSE IF op = "actualizarContrasena" /\ r.status = 200
  THEN [hist[i] EXCEPT !.consumed = TRUE, !.consumedEdad = Edad(auth, i, t)]
  ELSE IF op = "verificarCorreoCaptcha" /\ r.status = 200
  THEN [hist[i] EXCEPT !.captcha = TRUE]
  ELSE hist[i]

\* the observers: each remembers the fields of the history it is about and
\* leaves the others as they are
Campos(obs) ==
  CASE obs = "emision" -> {"issued", "issuedBy", "replaced", "captcha"}
    [] obs = "verificacion" -> {"regAccepted", "okEdad"}
    [] obs = "consumo" -> {"issued", "codeVerified", "consumed", "consumedEdad"}
    [] obs = "registro" -> {"validado", "completadoCon"}
    [] obs = "reintento" -> {"rechazos", "trasRechazo"}
    [] obs = "reemision" -> {"caducado", "regAccepted"}
    [] obs = "ninguno" -> {}

Observed(obs, old, new) ==
  [f \in DOMAIN old |-> IF f \in Campos(obs) THEN new[f] ELSE old[f]]

\* request op was answered as r, under observer obs
Handled(obs, op, r) ==
  /\ auth' = r.auth
  /\ perfil' = r.perfil
  /\ hist' = [i \in DOMAIN hist |-> Observed(obs, hist[i], HistAfter(i, op, r, now))]
  /\ UNCHANGED <<now, enCurso, mensajes, respuestas>>

(***************************************************************************)
(* Actions                                                                 *)
(***************************************************************************)
TickMs ==
  /\ (now - StartNow) % BigTick = 0
  /\ now' = now + 1
  /\ UNCHANGED <<auth, perfil, hist, enCurso, mensajes, respuestas>>

TickMin ==
  /\ (now - StartNow) \div BigTick < MaxBigTicks
  /\ now' = now - ((now - StartNow) % BigTick) + BigTick
  /\ UNCHANGED <<auth, perfil, hist, enCurso, mensajes, respuestas>>

\* The requests the actions draw: a well-formed request for the address of
\* row 1 (written in upper case), with every value of the inputs that decide
\* its outcome, and the requests that differ from it in one field.
ReqsVerificarCorreoCaptcha ==
  {[email |-> eAup, tokenCaptcha |-> "tok", google |-> g] : g \in {"success", "failure", "throws"}}
  \cup {[email |-> e, tokenCaptcha |-> "tok", google |-> "success"] : e \in Emails}
  \cup {[email |-> eAup, tokenCaptcha |-> "", google |-> "success"]}

ReqsEnviarCodigoRecuperar ==
  {[email |-> eAup, r |-> r, salt |-> s, mailOk |-> m] : r \in Rands, s \in Salts, m \in BOOLEAN}
  \cup {[email |-> e, r |-> 0, salt |-> "s1", mailOk |-> TRUE] : e \in Emails}

ReqsCodigo ==
  {[email |-> eAup, codigo |-> c] : c \in Codigos}
  \cup {[email |-> e, codigo |-> DrawCode(0)] : e \in Emails}

ReqsActualizarContrasena ==
  {[email |-> eAup, password |-> pw, confirmPassword |-> pw, hibp |-> h, salt |-> s] :
     pw \in Passwords, h \in HibpReplies, s \in Salts}
  \cup {[email |-> e, password |-> pwGood, confirmPassword |-> pwGood, hibp |-> HibpDown,
         salt |-> "s1"] : e \in Emails}
  \cup {[email |-> eAup, password |-> pwGood, confirmPassword |-> c, hibp |-> HibpDown,
         salt |-> "s1"] : c \in Confirmaciones}

ReqsEnviarCodigoRegistro ==
  {[correo |-> eAup, fecha |-> "2000-01-01", r |-> r, salt |-> s, mailOk |-> m] :
     r \in Rands, s \in Salts, m \in BOOLEAN}
  \cup {[correo |-> e, fecha |-> "2000-01-01", r |-> 0, salt |-> "s1", mailOk |-> TRUE] :
          e \in Emails}
  \cup {[correo |-> eAup, fecha |-> f, r |-> 0, salt |-> "s1", mailOk |-> TRUE] : f \in Fechas}

ReqsActualizarUsuario ==
  {[correo |-> eAup, password |-> pw, d |-> d, salt |-> s] :
     pw \in Passwords, d \in Perfiles, s \in Salts}
  \cup {[correo |-> e, password |-> pwGood, d |-> PerfilBueno, salt |-> "s1"] : e \in Emails}

ReqsCheckPasswordCompromised ==
  {[password |-> pw, hibp |-> h] : pw \in Passwords \cup {<<>>}, h \in HibpReplies}

AtenderCheckPasswordCompromised(obs, reqs) ==
  \E q \in reqs :
    Handled(obs, "checkPasswordCompromised",
            checkPasswordCompromised(auth, perfil, q.password, q.hibp))

PostCheckPasswordCompromised(obs) ==
  AtenderCheckPasswordCompromised(obs, ReqsCheckPasswordCompromised)

AtenderVerificarCorreoCaptcha(obs, reqs) ==
  \E q \in reqs :
    Handled(obs, "verificarCorreoCaptcha",
            verificarCorreoCaptcha(auth, perfil, q.email, q.tokenCaptcha, q.google))

PostVerificarCorreoCaptcha(obs) == AtenderVerificarCorreoCaptcha(obs, ReqsVerificarCorreoCaptcha)

AtenderEnviarCodigoRecuperar(obs, reqs) ==
  \E q \in reqs :
    Handled(obs, "enviarCodigoRecuperar",
            enviarCodigoRecuperar(auth, perfil, q.email, q.r, q.salt, now, q.mailOk))

PostEnviarCodigoRecuperar(obs) == AtenderEnviarCodigoRecuperar(obs, ReqsEnviarCodigoRecuperar)

AtenderVerificarCodigo(obs, reqs) ==
  \E q \in reqs :
    Handled(obs, "verificarCodigo", verificarCodigo(auth, perfil, q.email, q.codigo, now))

PostVerificarCodigo(obs) == AtenderVerificarCodigo(obs, ReqsCodigo)

AtenderActualizarContrasena(obs, reqs) ==
  \E q \in reqs :
    Handled(obs, "actualizarContrasena",
            actualizarContrasena(auth, perfil, q.email, q.password, q.confirmPassword,
                                 q.hibp, q.salt, now))

PostActualizarContrasena(obs) == AtenderActualizarContrasena(obs, ReqsActualizarContrasena)

AtenderEnviarCodigoRegistro(obs, reqs) ==
  \E q \in reqs :
    Handled(obs, "enviarCodigoRegistro",
            enviarCodigoRegistro(auth, perfil, q.correo, q.fecha, q.r, q.salt, now, q.mailOk))

PostEnviarCodigoRegistro(obs) == AtenderEnviarCodigoRegistro(obs, ReqsEnviarCodigoRegistro)

AtenderValidarCodigo(obs, reqs) ==
  \E q \in reqs :
    Handled(obs, "validarCodigo", validarCodigo(auth, perfil, q.email, q.codigo, now))

PostValidarCodigo(obs) == AtenderValidarCodigo(obs, ReqsCodigo)

AtenderActualizarUsuario(obs, reqs) ==
  \E q \in reqs :
    Handled(obs, "actualizarUsuario",
            actualizarUsuario(auth, perfil, q.correo, q.password, q.d, q.salt))

PostActualizarUsuario(obs) == AtenderActualizarUsuario(obs, ReqsActualizarUsuario)

\* one step of the system: the clock advances or a request is handled
Step(obs) ==
  \/ TickMs
  \/ TickMin
  \/ PostVerificarCorreoCaptcha(obs)
  \/ PostEnviarCodigoRecuperar(obs)
  \/ PostVerificarCodigo(obs)
  \/ PostActualizarContrasena(obs)
  \/ PostEnviarCodigoRegistro(obs)
  \/ PostValidarCodigo(obs)
  \/ PostActualizarUsuario(obs)
  \/ PostCheckPasswordCompromised(obs)

\* The requests drawn with two rows in the tables: both addresses, both
\* birthdates, one code, one password that passes the checks and one that is
\* too short, one profile.
EmailsDos == {eAup, eC}
FechasDos == {NacimientoDe(1), NacimientoDe(2)}

ReqsDosVerificarCorreoCaptcha ==
  {[email |-> e, tokenCaptcha |-> "tok", google |-> "success"] : e \in EmailsDos}

ReqsDosEnviarCodigoRecuperar ==
  {[email |-> e, r |-> 0, salt |-> "s1", mailOk |-> m] : e \in EmailsDos, m \in BOOLEAN}

ReqsDosCodigo == {[email |-> e, codigo |-> DrawCode(r)] : e \in EmailsDos, r \in Rands}

ReqsDosActualizarContrasena ==
  {[email |-> e, password |-> pw, confirmPassword |-> pw, hibp |-> HibpDown, salt |-> "s1"] :
     e \in EmailsDos, pw \in {pwGood, pwShort}}

ReqsDosEnviarCodigoRegistro ==
  {[correo |-> e, fecha |-> f, r |-> 0, salt |-> "s1", mailOk |-> m] :
     e \in EmailsDos, f \in FechasDos, m \in BOOLEAN}

ReqsDosActualizarUsuario ==
  {[correo |-> e, password |-> pw, d |-> PerfilBueno, salt |-> "s1"] :
     e \in EmailsDos, pw \in {pwGood, pwShort}}

\* one step of the system with two rows: the clock advances by BigTick or a
\* request is handled
StepDos(obs) ==
  \/ TickMin
  \/ AtenderVerificarCorreoCaptcha(obs, ReqsDosVerificarCorreoCaptcha)
  \/ AtenderEnviarCodigoRecuperar(obs, ReqsDosEnviarCodigoRecuperar)
  \/ AtenderVerificarCodigo(obs, ReqsDosCodigo)
  \/ AtenderActualizarContrasena(obs, ReqsDosActualizarContrasena)
  \/ AtenderEnviarCodigoRegistro(obs, ReqsDosEnviarCodigoRegistro)
  \/ AtenderValidarCodigo(obs, ReqsDosCodigo)
  \/ AtenderActualizarUsuario(obs, ReqsDosActualizarUsuario)

\* The enviarCodigo handlers step by step, one step per await that the other
\* requests can see: the SELECT (with the draw and the hashing that follow
\* it), the UPDATE, the call of the mailer with the response.

\* how resend.emails.send (registro) and transporter.sendMail (recuperar) end:
\* the mail is accepted, send returns { error }, or the call throws
ResultadosDeEnvio(router) ==
  IF router = "registro" THEN {"ok", "error", "throws"} ELSE {"ok", "throws"}

\* res.json(...) after the mail is accepted, res.status(500) otherwise
StatusDeEnvio(resultado) == IF resultado = "ok" THEN 200 ELSE 500

\* (an error branch that puts back the challenge the UPDATE replaced)
DeshacerCodigo(a, userId, antes) ==
  [a EXCEPT ![userId].codigo_verificacion = antes.codigo_verificacion,
            ![userId].fecha_codigo_verificacion = antes.fecha_codigo_verificacion]

\* the tables after the error branch and the catch block of enviarCodigo:
\* console.error and res.status(500), no query
AlFallarEnvio(a, userId, antes) == a

\* request k arrives at the enviarCodigo of router for the address of row 1:
\* the handler up to its UPDATE, that is its refusals (which end the request)
\* or the row it found and the code it drew and hashed
Leer(k, router) ==
  /\ enCurso[k].pc = "libre"
  /\ \E r \in Rands, salt \in Salts :
       LET res == IF router = "registro"
                  THEN enviarCodigoRegistro(auth, perfil, eAup, NacimientoDe(1), r, salt,
                                            now, TRUE)
                  ELSE enviarCodigoRecuperar(auth, perfil, eAup, r, salt, now, TRUE)
       IN enCurso' = [enCurso EXCEPT ![k] =
            IF res.code = NULL
            THEN [@ EXCEPT !.pc = "fin", !.router = router, !.userId = res.id,
                           !.status = res.status]
            ELSE [@ EXCEPT !.pc = "leido", !.router = router, !.userId = res.id,
                           !.code = res.code,
                           !.hashedToken = Some(BcryptHash(JwtSign(res.code[1]), salt))]]
  /\ UNCHANGED <<auth, perfil, now, hist, mensajes, respuestas>>

\* the UPDATE of request k is applied, with NOW() of that moment
Guardar(k) ==
  /\ enCurso[k].pc = "leido"
  /\ auth' = GuardarCodigo(auth, enCurso[k].userId, enCurso[k].hashedToken[1], now)
  /\ enCurso' = [j \in Peticiones |->
       IF j = k
       THEN [enCurso[k] EXCEPT !.pc = "guardado",
                               !.antes = Some(auth[enCurso[k].userId]),
                               !.ultimo = TRUE,
                               !.rival = \E o \in Peticiones \ {k} : enCurso[o].pc = "leido"]
       ELSE [enCurso[j] EXCEPT !.ultimo = FALSE]]
  /\ UNCHANGED <<perfil, now, hist, mensajes, respuestas>>

\* the mailer is called for request k and the response is sent
Enviar(k) ==
  /\ enCurso[k].pc = "guardado"
  /\ \E resultado \in ResultadosDeEnvio(enCurso[k].router) :
       /\ auth' = IF resultado = "ok" THEN auth
                  ELSE AlFallarEnvio(auth, enCurso[k].userId, enCurso[k].antes[1])
       /\ enCurso' = [j \in Peticiones |->
            IF j = k
            THEN [enCurso[k] EXCEPT !.pc = "fin", !.resultado = resultado,
                                    !.status = StatusDeEnvio(resultado),
                                    !.postrero = (resultado = "ok")]
            ELSE [enCurso[j] EXCEPT !.postrero = @ /\ resultado # "ok"]]
  /\ UNCHANGED <<perfil, now, hist, mensajes, respuestas>>

\* the process dies: the requests that are between two steps get no response
Caer ==
  /\ \E k \in Peticiones : enCurso[k].pc \in {"leido", "guardado"}
  /\ enCurso' = [k \in Peticiones |->
       IF enCurso[k].pc \in {"leido", "guardado"}
       THEN [enCurso[k] EXCEPT !.pc = "caido"]
       ELSE enCurso[k]]
  /\ UNCHANGED <<auth, perfil, now, hist, mensajes, respuestas>>

\* the challenge columns of a row
Reto(fila) ==
  [codigo_verificacion |-> fila.codigo_verificacion,
   fecha_codigo_verificacion |-> fila.fecha_codigo_verificacion]

\* req.body of the actualizarContrasena requests that run concurrently
ReqsCambio ==
  {[email |-> eAup, password |-> pw, salt |-> s] : pw \in {pwGood, pwOther}, s \in Salts}

\* request k arrives at actualizarContrasena for the address of row 1: the
\* handler up to its UPDATE, that is its refusals (which end the request) or
\* the row the SELECT returned and the password it hashed
LeerCambio(k) ==
  /\ enCurso[k].pc = "libre"
  /\ \E q \in ReqsCambio :
       LET res == actualizarContrasena(auth, perfil, q.email, q.password, q.password,
                                       HibpDown, q.salt, now)
       IN enCurso' = [enCurso EXCEPT ![k] =
            IF res.status # 200
            THEN [@ EXCEPT !.pc = "fin", !.router = "cambio", !.userId = res.id,
                           !.status = res.status]
            ELSE [@ EXCEPT !.pc = "seleccionado", !.router = "cambio", !.userId = res.id,
                           !.leida = Some(Reto(auth[res.id])),
                           !.hashedPassword = Some(BcryptHash(q.password, q.salt))]]
  /\ UNCHANGED <<auth, perfil, now, hist, mensajes, respuestas>>

\* the UPDATE of actualizarContrasena request k is applied, with NOW() of that
\* moment, and the response is sent
GuardarCambio(k) ==
  /\ enCurso[k].pc = "seleccionado"
  /\ auth' = GuardarContrasena(auth, enCurso[k].userId, enCurso[k].hashedPassword[1], now)
  /\ enCurso' = [j \in Peticiones |->
       IF j = k
       THEN [enCurso[k] EXCEPT !.pc = "fin", !.status = 200,
                               !.rival = \E o \in Peticiones \ {k} :
                                           enCurso[o].pc = "seleccionado",
                               !.piso = Reto(auth[enCurso[k].userId]) # enCurso[k].leida[1]]
       ELSE enCurso[j]]
  /\ UNCHANGED <<perfil, now, hist, mensajes, respuestas>>

\* one step of the system with the actualizarContrasena requests interleaved
\* with each other and with enviarCodigo
NextCambio ==
  \/ TickMin
  \/ AtenderEnviarCodigoRecuperar("ninguno",
       {[email |-> eAup, r |-> r, salt |-> "s1", mailOk |-> TRUE] : r \in Rands})
  \/ \E k \in Peticiones : LeerCambio(k)
  \/ \E k \in Peticiones : GuardarCambio(k)

\* one step of the system with the enviarCodigo requests interleaved
NextConcurrente ==
  \/ TickMin
  \/ \E k \in Peticiones : Leer(k, "registro")
  \/ \E k \in Peticiones : Leer(k, "recuperar")
  \/ \E k \in Peticiones : Guardar(k)
  \/ \E k \in Peticiones : Enviar(k)
  \/ Caer
  \/ AtenderValidarCodigo("ninguno", ReqsCodigo)
  \/ AtenderVerificarCodigo("ninguno", ReqsCodigo)

\* The requests to the preguntas router the actions draw: for every question
\* stored and for one that is not, with and without the field the validators
\* ask for, with and without a session, and a query or a mail that fails.
ReqsResponder ==
  {[id |-> i, respuesta |-> t, falla |-> 0, envio |-> e, nodeEnv |-> "production"] :
     i \in 1..(MaxMensajes + 1), t \in Textos, e \in {"ok", "error", "throws"}}
  \cup {[id |-> 1, respuesta |-> tOk, falla |-> f, envio |-> "ok", nodeEnv |-> n] :
          f \in 1..3, n \in NodeEnvs}

ReqsCrearPregunta ==
  {[nombre |-> "Ana", apellidoPaterno |-> "Paz", email |-> e, mensaje |-> t, falla |-> f] :
     e \in {eC, eBad}, t \in {<<>>, tOk}, f \in BOOLEAN}
  \cup {[nombre |-> n, apellidoPaterno |-> ap, email |-> eC, mensaje |-> tOk, falla |-> FALSE] :
          n \in {"", "Ana"}, ap \in {"", "Paz"}}

ReqsCrearPreguntaRegistrado ==
  {[user |-> u, mensaje |-> t, falla |-> f] : u \in Sesiones, t \in Textos, f \in BOOLEAN}

ReqsResponderRegistrado ==
  {[user |-> u, id |-> i, respuesta |-> t, falla |-> f] :
     u \in Sesiones, i \in 1..(MaxMensajes + 1), t \in Textos, f \in BOOLEAN}

ReqsResponderAdmin ==
  {[id |-> i, respuesta |-> t, falla |-> f] :
     i \in 1..(MaxMensajes + 1), t \in Textos, f \in BOOLEAN}

\* a request to the preguntas router was answered as r
Atendida(r) ==
  /\ Len(r.mensajes) <= MaxMensajes
  /\ Len(r.respuestas) <= MaxRespuestas
  /\ mensajes' = r.mensajes
  /\ respuestas' = r.respuestas
  /\ UNCHANGED <<auth, perfil, now, hist, enCurso>>

PostResponder ==
  \E q \in ReqsResponder :
    Atendida(responder(mensajes, respuestas, q.id, q.respuesta, q.falla, q.envio, q.nodeEnv))

PostCrearPregunta ==
  \E q \in ReqsCrearPregunta :
    Atendida(crearPregunta(mensajes, respuestas, q.nombre, q.apellidoPaterno, q.email,
                           q.mensaje, q.falla))

PostCrearPreguntaRegistrado ==
  \E q \in ReqsCrearPreguntaRegistrado :
    Atendida(crearPreguntaRegistrado(mensajes, respuestas, auth, perfil, q.user, q.mensaje,
                                     q.falla))

PostResponderRegistrado ==
  \E q \in ReqsResponderRegistrado :
    Atendida(responderRegistrado(mensajes, respuestas, q.user, q.id, q.respuesta, q.falla))

PostResponderAdmin ==
  \E q \in ReqsResponderAdmin :
    Atendida(responderAdmin(mensajes, respuestas, q.id, q.respuesta, q.falla))

ReqsValidarUsuario ==
  {[correo |-> e, fecha |-> f, falla |-> x] : e \in Emails, f \in Fechas, x \in BOOLEAN}

\* validarUsuario and test-email-registro answer and write nothing
PostValidarUsuario ==
  /\ \E q \in ReqsValidarUsuario :
       validarUsuario(auth, perfil, q.correo, q.fecha, q.falla).status \in {200, 400, 404, 500}
  /\ UNCHANGED vars

GetTestEmailRegistro ==
  /\ \E envio \in {"ok", "error", "throws"} : testEmailRegistro(envio).status \in {200, 500}
  /\ UNCHANGED vars

\* one step of the system seen from the questions: a request to the preguntas
\* router or to a route that only reads is handled, or a code is sent to the
\* address of row 1
NextPreguntas ==
  \/ PostValidarUsuario
  \/ GetTestEmailRegistro
  \/ PostCrearPregunta
  \/ PostCrearPreguntaRegistrado
  \/ PostResponder
  \/ PostResponderRegistrado
  \/ PostResponderAdmin
  \/ AtenderEnviarCodigoRegistro("ninguno",
       {[correo |-> eAup, fecha |-> NacimientoDe(1), r |-> 0, salt |-> "s1", mailOk |-> TRUE]})
  \/ AtenderEnviarCodigoRecuperar("ninguno",
       {[email |-> eAup, r |-> 0, salt |-> "s1", mailOk |-> TRUE]})

\* one step of the system seen from the breach check: the clock advances, a
\* recovery code is sent, a password is checked or changed
NextBrecha ==
  \/ TickMin
  \/ PostEnviarCodigoRecuperar("ninguno")
  \/ PostCheckPasswordCompromised("ninguno")
  \/ PostActualizarContrasena("ninguno")

NextDos == StepDos("ninguno")
NextEmision == Step("emision")
NextVerificacion == Step("verificacion")
NextRegistro == Step("registro")
NextReintento == Step("reintento")
NextReemision == Step("reemision")
Next == Step("consumo")

\* the system watched by the observer of consumption, of issue, of
\* verification, of the registration of a row
Spec == Init /\ [][Next]_vars
SpecEmision == Init /\ [][NextEmision]_vars
SpecVerificacion == Init /\ [][NextVerificacion]_vars
SpecRegistro == Init /\ [][NextRegistro]_vars
\* the system watched by the observer of the refused attempts
SpecReintento == Init /\ [][NextReintento]_vars
\* the system with two rows, with no observer
SpecDos == InitDos /\ [][NextDos]_vars
\* the system with two enviarCodigo requests handled step by step
SpecConcurrente == Init /\ [][NextConcurrente]_vars
\* the questions and their answers
SpecPreguntas == Init /\ [][NextPreguntas]_vars
\* the recovery of a password with its breach checks
SpecBrecha == Init /\ [][NextBrecha]_vars

SpecCambio == Init /\ [][NextCambio]_vars

SpecReemision == Init /\ [][NextReemision]_vars


(***************************************************************************)
(* Properties                                                              *)
(***************************************************************************)
\* the rows of the table
Filas == DOMAIN auth

\* the addresses a request can give for row i: those that pass isEmail and
\* are the row's address once lower-cased
EmailsDe(i) ==
  {e \in Emails \cup {eA} : IsEmail(e) /\ ToLowerCase(e) = auth[i].correo_electronico}

\* the six-character codes a request can submit
Codigos6 == {c \in Codigos : Len(c) = 6}

\* a challenge is stored on row i
HayCodigo(i) ==
  auth[i].codigo_verificacion # NULL /\ auth[i].fecha_codigo_verificacion # NULL

\* a password with its confirmation that passes every check of
\* actualizarContrasena under the reply hibp of the breach service
PeticionBuena(password, confirmPassword, hibp) ==
  /\ Len(password) >= 8
  /\ confirmPassword = password
  /\ passwordRegex(password)
  /\ ~isPasswordPwned(password, hibp)

MsgSinCodigoCambio == "Debe verificar el codigo de recuperacion antes de cambiar la contrasena."
MsgSinCodigoVerificar == "No se ha solicitado recuperacion de contrasena para este usuario."
MsgExpiradoRegistro == "El codigo ha expirado"
MsgExpiradoVerificar == "El codigo ha expirado. Solicite uno nuevo."
MsgExpiradoCambio == "El proceso de recuperacion ha expirado. Inicie nuevamente."
MsgIncorrectoRegistro == "Codigo incorrecto"

\* C1: actualizarContrasena changes the password of a row only with a challenge
\* that verificarCodigo accepted before (Requested -> CodeVerified -> Reset).
\* Stated of the code; it does not hold: the handler asks only that a
\* challenge be stored.
C1_ResetOnlyAfterCodeVerified ==
  \A i \in Filas : hist[i].consumed => hist[i].codeVerified

\* C2: after a successful actualizarContrasena and until a new enviarCodigo,
\* every further actualizarContrasena for the row fails on the cleared
\* challenge and leaves the tables as they are, and verificarCodigo accepts no
\* code, the code of the consumed challenge included.
C2_ResetChallengeSingleUse ==
  \A i \in Filas : hist[i].consumed =>
    /\ \A e \in EmailsDe(i), pw \in Passwords, cf \in Confirmaciones \cup Passwords,
          h \in HibpReplies, s \in Salts :
         LET r == actualizarContrasena(auth, perfil, e, pw, cf, h, s, now) IN
           /\ r.status = 400
           /\ r.auth = auth
           /\ r.perfil = perfil
           /\ PeticionBuena(pw, cf, h) => r.msg = MsgSinCodigoCambio
    /\ \A e \in EmailsDe(i), c \in Codigos6 \cup {hist[i].issued[1]} :
         verificarCodigo(auth, perfil, e, c, now).status # 200

\* a reset was completed, no code has been sent since, and a second request
\* that passes the password checks is refused for the cleared challenge
C2_Witness ==
  \E i \in Filas :
    /\ hist[i].consumed
    /\ hist[i].issued # NULL
    /\ auth[i].contrasena = Some(BcryptHash(pwGood, "s1"))
    /\ ~HayCodigo(i)
    /\ \E e \in EmailsDe(i) :
         actualizarContrasena(auth, perfil, e, pwGood, pwGood, HibpDown, "s1", now).msg
           = MsgSinCodigoCambio

\* C3: once enviarCodigo (of either router) has issued a code for a row, every
\* other code fails validarCodigo and verificarCodigo for that row: the codes
\* of earlier challenges no longer verify, whatever their age.
C3_OnlyLatestCodeVerifies ==
  \A i \in Filas : hist[i].issued # NULL =>
    \A e \in EmailsDe(i), c \in Codigos6 :
      c # hist[i].issued[1] =>
        /\ validarCodigo(auth, perfil, e, c, now).status # 200
        /\ verificarCodigo(auth, perfil, e, c, now).status # 200

\* a new code has just replaced a different code that had not expired, and
\* the new code verifies
C3_Witness ==
  \E i \in Filas :
    /\ hist[i].replaced
    /\ Edad(auth, i, now) = 0
    /\ \E e \in EmailsDe(i) :
         validarCodigo(auth, perfil, e, hist[i].issued[1], now).status = 200

\* C4: once validarCodigo has accepted the code of a challenge, no further
\* validarCodigo succeeds for the row until a new enviarCodigo.
\* Stated of the code; it does not hold: validarCodigo writes verificado
\* alone and the challenge stays on the row.
C4_RegistrationChallengeSingleUse ==
  \A i \in Filas : hist[i].regAccepted =>
    \A e \in EmailsDe(i), c \in Codigos6 :
      validarCodigo(auth, perfil, e, c, now).status # 200

\* C5: with a challenge stored, validarCodigo and verificarCodigo answer
\* "expired" for every code once the challenge is more than 10 minutes old,
\* and accept the right code when it is exactly 10 minutes old.
C5_ExpiryStrictlyAfterTtl ==
  \A i \in Filas : HayCodigo(i) =>
    \A e \in EmailsDe(i), c \in Codigos6 :
      LET v == validarCodigo(auth, perfil, e, c, now)
          w == verificarCodigo(auth, perfil, e, c, now)
          edad == Edad(auth, i, now)
      IN /\ edad > TTL_VERIFY =>
              /\ v.status = 400 /\ v.msg = MsgExpiradoRegistro
              /\ w.status = 400 /\ w.msg = MsgExpiradoVerificar
         /\ edad <= TTL_VERIFY =>
              /\ v.msg # MsgExpiradoRegistro
              /\ w.msg # MsgExpiradoVerificar
         /\ (edad = TTL_VERIFY /\ Some(c) = CodigoGuardado(auth, i)) =>
              /\ v.status = 200
              /\ w.status = 200

\* a challenge was accepted when exactly 10 minutes old and is now older
C5_Witness ==
  \E i \in Filas :
    /\ hist[i].okEdad = TTL_VERIFY
    /\ Edad(auth, i, now) > TTL_VERIFY

\* C6: for a row with no challenge stored, validarCodigo and verificarCodigo
\* answer "no challenge", never "expired" or "wrong code".
\* Stated of the code; it does not hold: validarCodigo reads the missing date
\* as the epoch and answers "expired".
C6_NoChallengeIsNotFound ==
  \A i \in Filas : ~HayCodigo(i) =>
    \A e \in EmailsDe(i), c \in Codigos6 :
      LET v == validarCodigo(auth, perfil, e, c, now)
          w == verificarCodigo(auth, perfil, e, c, now)
      IN /\ w.status = 400 /\ w.msg = MsgSinCodigoVerificar
         /\ v.status # 200
         /\ v.msg \notin {MsgExpiradoRegistro, MsgIncorrectoRegistro}

\* C7: a challenge issued by the enviarCodigo of the recovery router is on a
\* row that passed verificarCorreoCaptcha and is active with its registration
\* completed.
\* Stated of the code; it does not hold: enviarCodigo never asks for the
\* CAPTCHA nor for the outcome of verificarCorreoCaptcha.
C7_ResetIssueGated ==
  \A i \in Filas : hist[i].issuedBy = "recuperar" =>
    /\ hist[i].captcha
    /\ auth[i].estatus = "Activo"
    /\ auth[i].registro_completado = 1

\* C8: actualizarContrasena changes the password of active rows only.
\* Stated of the code; it does not hold: the handler never reads estatus.
C8_OnlyActiveReset ==
  \A i \in Filas : hist[i].consumed => auth[i].estatus = "Activo"

\* C9: with a challenge stored, actualizarContrasena answers "expired" and
\* changes nothing once the challenge is more than 15 minutes old, and a
\* request that passes the password checks succeeds up to 15 minutes, the
\* 10 minutes of the verify step notwithstanding.
C9_ResetWindowFifteenMinutes ==
  \A i \in Filas : HayCodigo(i) =>
    \A e \in EmailsDe(i), pw \in Passwords, cf \in Confirmaciones \cup Passwords,
       h \in HibpReplies, s \in Salts :
      LET r == actualizarContrasena(auth, perfil, e, pw, cf, h, s, now)
          edad == Edad(auth, i, now)
      IN /\ edad > TTL_RESET_MIN * MsPerMin =>
              /\ r.status = 400
              /\ r.auth = auth
              /\ r.perfil = perfil
              /\ PeticionBuena(pw, cf, h) => r.msg = MsgExpiradoCambio
         /\ (edad <= TTL_RESET_MIN * MsPerMin /\ PeticionBuena(pw, cf, h)) =>
              /\ r.status = 200
              /\ r.auth[i].contrasena = Some(BcryptHash(pw, s))

\* a password was changed with a challenge older than 10 minutes
C9_Witness ==
  \E i \in Filas :
    /\ hist[i].consumed
    /\ hist[i].consumedEdad > TTL_VERIFY_MIN * MsPerMin
    /\ hist[i].consumedEdad <= TTL_RESET_MIN * MsPerMin

\* C10: actualizarUsuario fails and writes nothing when the breach service
\* reports the submitted password as compromised.
\* Stated of the code; it does not hold: actualizarUsuario never calls
\* isPasswordPwned.
C10_BreachedPasswordRejected ==
  \A e \in Emails, pw \in Passwords, d \in Perfiles, s \in Salts, h \in HibpReplies :
    isPasswordPwned(pw, h) =>
      LET r == actualizarUsuario(auth, perfil, e, pw, d, s) IN
        /\ r.status # 200
        /\ r.auth = auth
        /\ r.perfil = perfil

\* C11: actualizarUsuario never asks whether the row is verified: for every
\* row, verified or not, a request with a valid profile and a password of at
\* least 8 characters is answered 200, sets the password and
\* registro_completado = 1 and leaves verificado as it was; so a row gets its
\* registration completed with no validarCodigo ever accepted for it.
C11_CompleteWithoutVerified ==
  \A i \in Filas :
    /\ \A e \in EmailsDe(i), pw \in Passwords, d \in Perfiles, s \in Salts :
         (Len(pw) >= 8 /\ PerfilValido(d)) =>
           LET r == actualizarUsuario(auth, perfil, e, pw, d, s) IN
             /\ r.status = 200
             /\ r.auth[i].registro_completado = 1
             /\ r.auth[i].contrasena = Some(BcryptHash(pw, s))
             /\ r.auth[i].verificado = auth[i].verificado
    /\ hist[i].completadoCon # -1 => auth[i].registro_completado = 1

\* actualizarUsuario completed the registration of a row that validarCodigo
\* never accepted a code for, and the row is still not verified
C11_Witness ==
  \E i \in Filas :
    /\ hist[i].completadoCon = 0
    /\ ~hist[i].validado
    /\ auth[i].verificado = 0
    /\ auth[i].registro_completado = 1
    /\ perfil[i].nombre = Some(PerfilBueno.firstName)

MsgNoEncontrado == "Usuario no encontrado"
MsgYaRegistrado == "Usuario ya registrado"

\* C12: the enviarCodigo of the registration router, given a well-formed
\* address and birthdate that no row has together, answers 404, leaves both
\* tables as they are (the challenge of every row included) and hands no code
\* to the mailer.
C12_NoMatchWritesNothing ==
  \A e \in Emails, f \in Fechas, r \in Rands, s \in Salts, m \in BOOLEAN :
    (/\ IsEmail(e)
     /\ IsISO8601(f)
     /\ ~\E i \in Filas : /\ auth[i].correo_electronico = ToLowerCase(e)
                          /\ perfil[i].fecha_nacimiento = f) =>
      LET res == enviarCodigoRegistro(auth, perfil, e, f, r, s, now, m) IN
        /\ res.status = 404
        /\ res.msg = MsgNoEncontrado
        /\ res.auth = auth
        /\ res.perfil = perfil
        /\ res.code = NULL

\* a pending row holds a challenge that has not expired, and a request with
\* its address and the birthdate of the other row is answered 404
C12_Witness ==
  \E i \in Filas, j \in Filas :
    /\ i # j
    /\ auth[i].registro_completado = 0
    /\ HayCodigo(i)
    /\ Edad(auth, i, now) \in 1..TTL_VERIFY
    /\ HayCodigo(j)
    /\ \E e \in EmailsDe(i) :
         LET res == enviarCodigoRegistro(auth, perfil, e, perfil[j].fecha_nacimiento,
                                         0, "s1", now, TRUE) IN
           res.status = 404 /\ res.auth = auth

\* C13: the enviarCodigo of the registration router, asked for a row whose
\* registration is completed, answers 400 "Usuario ya registrado", leaves the
\* stored challenge (and both tables) as they are and hands no code to the mailer.
C13_AlreadyRegisteredRefused ==
  \A i \in Filas : auth[i].registro_completado = 1 =>
    \A e \in EmailsDe(i), r \in Rands, s \in Salts, m \in BOOLEAN :
      LET res == enviarCodigoRegistro(auth, perfil, e, perfil[i].fecha_nacimiento,
                                      r, s, now, m) IN
        /\ res.status = 400
        /\ res.msg = MsgYaRegistrado
        /\ res.auth = auth
        /\ res.perfil = perfil
        /\ res.code = NULL

\* actualizarUsuario completed the registration of a row that still holds the
\* challenge of its registration, not yet expired, and a request for a new
\* code is refused
C13_Witness ==
  \E i \in Filas :
    /\ hist[i].completadoCon # -1
    /\ auth[i].registro_completado = 1
    /\ HayCodigo(i)
    /\ Edad(auth, i, now) \in 1..TTL_VERIFY
    /\ \E e \in EmailsDe(i) :
         enviarCodigoRegistro(auth, perfil, e, perfil[i].fecha_nacimiento,
                              0, "s1", now, TRUE).msg = MsgYaRegistrado

\* C14: with a challenge stored, validarCodigo writes verificado = 1 and
\* nothing else when it accepts the code, and nothing at all when it answers
\* "expired" or "wrong code"; however many codes it has refused, it accepts
\* the code of the stored challenge as long as the challenge is no more than
\* 10 minutes old.
C14_FailedAttemptsChangeNothing ==
  \A i \in Filas : HayCodigo(i) =>
    \A e \in EmailsDe(i), c \in Codigos6 :
      LET v == validarCodigo(auth, perfil, e, c, now) IN
        /\ v.perfil = perfil
        /\ v.status = 200 =>
             /\ v.auth[i].verificado = 1
             /\ v.auth = [auth EXCEPT ![i].verificado = 1]
        /\ v.status # 200 =>
             /\ v.msg \in {MsgExpiradoRegistro, MsgIncorrectoRegistro}
             /\ v.auth = auth
        /\ (Some(c) = CodigoGuardado(auth, i) /\ Edad(auth, i, now) <= TTL_VERIFY) =>
             v.status = 200

\* validarCodigo refused a wrong code for the challenge of a row and accepted
\* the right one afterwards
C14_Witness ==
  \E i \in Filas :
    /\ MsgIncorrectoRegistro \in hist[i].rechazos
    /\ hist[i].trasRechazo
    /\ auth[i].verificado = 1
    /\ HayCodigo(i)

\* C15: verificado = 1 on a row only after validarCodigo answered 200 for it;
\* no request to verificarCorreoCaptcha, to either enviarCodigo, to
\* verificarCodigo, to actualizarContrasena or to actualizarUsuario changes
\* verificado on any row.
C15_VerifiedOnlyByValidarCodigo ==
  \A i \in Filas :
    /\ auth[i].verificado = 1 => hist[i].validado
    /\ \A q \in ReqsVerificarCorreoCaptcha :
         verificarCorreoCaptcha(auth, perfil, q.email, q.tokenCaptcha, q.google)
           .auth[i].verificado = auth[i].verificado
    /\ \A q \in ReqsEnviarCodigoRecuperar :
         enviarCodigoRecuperar(auth, perfil, q.email, q.r, q.salt, now, q.mailOk)
           .auth[i].verificado = auth[i].verificado
    /\ \A q \in ReqsEnviarCodigoRegistro :
         enviarCodigoRegistro(auth, perfil, q.correo, q.fecha, q.r, q.salt, now, q.mailOk)
           .auth[i].verificado = auth[i].verificado
    /\ \A q \in ReqsCodigo :
         verificarCodigo(auth, perfil, q.email, q.codigo, now)
           .auth[i].verificado = auth[i].verificado
    /\ \A q \in ReqsActualizarContrasena :
         actualizarContrasena(auth, perfil, q.email, q.password, q.confirmPassword,
                              q.hibp, q.salt, now)
           .auth[i].verificado = auth[i].verificado
    /\ \A q \in ReqsActualizarUsuario :
         actualizarUsuario(auth, perfil, q.correo, q.password, q.d, q.salt)
           .auth[i].verificado = auth[i].verificado

\* a row that validarCodigo verified has since had its registration completed
\* and its password reset, and is still verified
C15_Witness ==
  \E i \in Filas :
    /\ auth[i].verificado = 1
    /\ hist[i].validado
    /\ hist[i].completadoCon = 1
    /\ auth[i].fecha_actualizacion # NULL
    /\ ~HayCodigo(i)

\* the UPDATE of request k has been applied
Guardo(k) == enCurso[k].antes # NULL

\* C16: of the enviarCodigo requests for a row whose UPDATEs have been
\* applied, in whatever order their steps interleaved, the challenge on the
\* row is the one of the request whose UPDATE was applied last: its code is
\* accepted by validarCodigo and verificarCodigo while no more than 10 minutes
\* old, and the code of every other request, when it is another code, is refused.
C16_LastUpdateWins ==
  \A k \in Peticiones : enCurso[k].ultimo =>
    LET i == enCurso[k].userId
        c == enCurso[k].code[1]
    IN /\ auth[i].codigo_verificacion = enCurso[k].hashedToken
       /\ \A o \in Peticiones \ {k} : ~enCurso[o].ultimo
       /\ \A e \in EmailsDe(i) :
            /\ Edad(auth, i, now) <= TTL_VERIFY =>
                 /\ validarCodigo(auth, perfil, e, c, now).status = 200
                 /\ verificarCodigo(auth, perfil, e, c, now).status = 200
            /\ \A o \in Peticiones \ {k} :
                 (Guardo(o) /\ enCurso[o].code # enCurso[k].code) =>
                   /\ validarCodigo(auth, perfil, e, enCurso[o].code[1], now).status # 200
                   /\ verificarCodigo(auth, perfil, e, enCurso[o].code[1], now).status # 200

\* two requests with different codes were both answered 200; the UPDATE of
\* the first was applied while the second was between its SELECT and its
\* UPDATE, and the code of the second is the one that verifies
C16_Witness ==
  \E k \in Peticiones, o \in Peticiones :
    /\ enCurso[k].pc = "fin" /\ enCurso[k].status = 200
    /\ enCurso[o].pc = "fin" /\ enCurso[o].status = 200
    /\ enCurso[o].rival
    /\ enCurso[k].ultimo
    /\ enCurso[k].code # enCurso[o].code
    /\ \E e \in EmailsDe(enCurso[k].userId) :
         /\ validarCodigo(auth, perfil, e, enCurso[k].code[1], now).status = 200
         /\ validarCodigo(auth, perfil, e, enCurso[o].code[1], now).msg = MsgIncorrectoRegistro

\* C17: an enviarCodigo request whose UPDATE was applied and whose mail then
\* failed is answered 500, and neither that failure nor the death of the
\* process after the UPDATE puts the previous challenge back: as long as no
\* later UPDATE was applied, the row holds the challenge of that request, and
\* the code of the challenge it replaced, when it is another code, is refused
\* by validarCodigo and verificarCodigo.
C17_StoredBeforeSendNoRollback ==
  \A k \in Peticiones :
    /\ (enCurso[k].pc = "fin" /\ enCurso[k].resultado # "none") => Guardo(k)
    /\ (enCurso[k].pc = "fin" /\ enCurso[k].resultado \in {"error", "throws"}) =>
         enCurso[k].status = 500
    /\ (/\ Guardo(k)
        /\ enCurso[k].ultimo
        /\ \/ enCurso[k].pc = "caido"
           \/ enCurso[k].pc = "fin" /\ enCurso[k].status = 500) =>
         LET i == enCurso[k].userId
             previo == enCurso[k].antes[1].codigo_verificacion
         IN /\ auth[i].codigo_verificacion = enCurso[k].hashedToken
            /\ auth[i].fecha_codigo_verificacion # NULL
            /\ (previo # NULL /\ previo[1].data.code # enCurso[k].code[1]) =>
                 \A e \in EmailsDe(i) :
                   /\ validarCodigo(auth, perfil, e, previo[1].data.code, now).status # 200
                   /\ verificarCodigo(auth, perfil, e, previo[1].data.code, now).status # 200

\* a request replaced a challenge that had not expired by one with another
\* code, its mail failed and it was answered 500; the new challenge is on the row
C17_Witness ==
  \E k \in Peticiones :
    /\ enCurso[k].pc = "fin"
    /\ enCurso[k].status = 500
    /\ enCurso[k].ultimo
    /\ enCurso[k].antes[1].codigo_verificacion # NULL
    /\ enCurso[k].antes[1].codigo_verificacion # enCurso[k].hashedToken
    /\ now - enCurso[k].antes[1].fecha_codigo_verificacion[1] <= TTL_VERIFY
    /\ CodigoGuardado(auth, enCurso[k].userId) = enCurso[k].code

\* the rows a request for address e can resolve to
FilasDe(e) == {i \in Filas : ToLowerCase(e) = auth[i].correo_electronico}

\* C18, as claimed: a successful actualizarContrasena writes the new hash to
\* contrasena and clears codigo_verificacion and fecha_codigo_verificacion of
\* the row, and changes nothing else on that row nor on any other row nor in
\* the profiles; a failing one changes nothing.
\* It does not hold: the UPDATE sets fecha_actualizacion as well.
C18_ResetWritesPasswordAndChallengeOnly ==
  \A e \in Emails, pw \in Passwords, h \in HibpReplies, s \in Salts :
    \A cf \in {pw, pwOther, <<>>} :
    LET r == actualizarContrasena(auth, perfil, e, pw, cf, h, s, now) IN
      /\ r.perfil = perfil
      /\ r.status # 200 => r.auth = auth
      /\ r.status = 200 =>
           \E i \in FilasDe(e) :
             r.auth = [auth EXCEPT ![i].contrasena = Some(BcryptHash(pw, s)),
                                   ![i].codigo_verificacion = NULL,
                                   ![i].fecha_codigo_verificacion = NULL]

\* C18, amended: a successful actualizarContrasena writes the new hash to
\* contrasena, clears codigo_verificacion and fecha_codigo_verificacion and
\* sets fecha_actualizacion to the time of the request on the row, and changes
\* nothing else: registro_completado, verificado and estatus of the row, every
\* column of every other row and the profiles are as before; a failing one
\* changes nothing.
C18_ResetFrame ==
  \A e \in Emails, pw \in Passwords, h \in HibpReplies, s \in Salts :
    \A cf \in {pw, pwOther, <<>>} :
    LET r == actualizarContrasena(auth, perfil, e, pw, cf, h, s, now) IN
      /\ r.perfil = perfil
      /\ r.status # 200 => r.auth = auth
      /\ r.status = 200 =>
           \E i \in FilasDe(e) :
             /\ r.auth = [auth EXCEPT ![i].contrasena = Some(BcryptHash(pw, s)),
                                      ![i].codigo_verificacion = NULL,
                                      ![i].fecha_codigo_verificacion = NULL,
                                      ![i].fecha_actualizacion = Some(now)]
             /\ r.auth[i].registro_completado = auth[i].registro_completado
             /\ r.auth[i].verificado = auth[i].verificado
             /\ r.auth[i].estatus = auth[i].estatus
             /\ \A j \in Filas \ {i} : r.auth[j] = auth[j]

\* the password of a row was reset after the other row, verified, had got
\* the challenge it still holds
C18_Witness ==
  \E i \in Filas, j \in Filas :
    /\ i # j
    /\ auth[i].fecha_actualizacion # NULL
    /\ auth[i].contrasena = Some(BcryptHash(pwGood, "s1"))
    /\ ~HayCodigo(i)
    /\ HayCodigo(j)
    /\ auth[j].fecha_codigo_verificacion[1] < auth[i].fecha_actualizacion[1]
    /\ auth[j].verificado = 1

MsgIncorrectoVerificar == "Codigo incorrecto. Verifique e intente nuevamente."

\* the outcome of a verify request, as the spec names it
Resultado(r) ==
  IF r.status = 200 THEN "Ok"
  ELSE IF r.msg \in {MsgExpiradoRegistro, MsgExpiradoVerificar} THEN "Expired"
  ELSE IF r.msg \in {MsgIncorrectoRegistro, MsgIncorrectoVerificar} THEN "Mismatch"
  ELSE "Other"

\* C19: for a row with a challenge stored, every submitted code and every
\* time, verificarCodigo ends as validarCodigo does, in Ok, Expired or
\* Mismatch; and verificarCodigo writes nothing, whatever the row, the code
\* and the outcome.
C19_VerificarCodigoAsValidarCodigo ==
  /\ \A e \in Emails, c \in Codigos :
       LET w == verificarCodigo(auth, perfil, e, c, now) IN
         w.auth = auth /\ w.perfil = perfil
  /\ \A i \in Filas : HayCodigo(i) =>
       \A e \in EmailsDe(i), c \in Codigos6 :
         LET v == validarCodigo(auth, perfil, e, c, now)
             w == verificarCodigo(auth, perfil, e, c, now)
         IN /\ Resultado(w) = Resultado(v)
            /\ Resultado(w) \in {"Ok", "Expired", "Mismatch"}

\* verificarCodigo accepted the challenge of a row, which is now exactly 10
\* minutes old, still stored and still accepted by both handlers, and the row
\* is not verified
C19_Witness ==
  \E i \in Filas :
    /\ hist[i].codeVerified
    /\ HayCodigo(i)
    /\ Edad(auth, i, now) = TTL_VERIFY
    /\ auth[i].verificado = 0
    /\ \E e \in EmailsDe(i) :
         /\ Resultado(verificarCodigo(auth, perfil, e, hist[i].issued[1], now)) = "Ok"
         /\ Resultado(validarCodigo(auth, perfil, e, hist[i].issued[1], now)) = "Ok"

MsgSegura == "Contrasena segura."
MsgComprometida == "Esta contrasena ha sido comprometida en filtraciones de datos."

\* C20: when the range request to the breach service fails, isPasswordPwned
\* returns false for every password, checkPasswordCompromised answers 200
\* "safe", and actualizarContrasena accepts every request that passes its
\* other checks, for a row whose challenge is no more than 15 minutes old.
C20_BreachCheckFailsOpen ==
  /\ \A pw \in Passwords :
       /\ ~isPasswordPwned(pw, HibpDown)
       /\ checkPasswordCompromised(auth, perfil, pw, HibpDown).status = 200
       /\ checkPasswordCompromised(auth, perfil, pw, HibpDown).msg = MsgSegura
  /\ \A i \in Filas : (HayCodigo(i) /\ Edad(auth, i, now) <= TTL_RESET_MIN * MsPerMin) =>
       \A e \in EmailsDe(i), pw \in Passwords, s \in Salts :
         (Len(pw) >= 8 /\ passwordRegex(pw)) =>
           LET r == actualizarContrasena(auth, perfil, e, pw, pw, HibpDown, s, now) IN
             /\ r.status = 200
             /\ r.auth[i].contrasena = Some(BcryptHash(pw, s))

\* a row holds a challenge, and a password that the breach service reports
\* as compromised when it answers is refused then and accepted when the
\* service is down
C20_Witness ==
  \E i \in Filas :
    /\ HayCodigo(i)
    /\ hist[i].issued # NULL
    /\ \E e \in EmailsDe(i) :
         /\ actualizarContrasena(auth, perfil, e, pwGood, pwGood, HibpGoodPwned, "s1", now).msg
              = MsgComprometida
         /\ checkPasswordCompromised(auth, perfil, pwGood, HibpGoodPwned).status = 400
         /\ checkPasswordCompromised(auth, perfil, pwGood, HibpDown).status = 200
         /\ actualizarContrasena(auth, perfil, e, pwGood, pwGood, HibpDown, "s1", now).status
              = 200

\* the suffix of the digest of a password, as the breach service writes it
SufijoDe(password) == SubSeq(ToUpperCase(Sha1Hex(password)), 6, Len(Sha1Hex(password)))

\* The bodies the breach service answers with: up to two lines SUFFIX:COUNT,
\* each suffix once, ended by CR LF or by LF, with or without an end of line
\* after the last one.
SufijosHibp == {SufijoDe(pwGood), <<"F","F","F">>}
CuentasHibp == {0, 12}
LineasHibp == {[sfx |-> x, n |-> n] : x \in SufijosHibp, n \in CuentasHibp}
ParesHibp ==
  {<<>>} \cup {<<l>> : l \in LineasHibp}
         \cup {<<l, m>> : <<l, m>> \in {q \in LineasHibp \X LineasHibp : q[1].sfx # q[2].sfx}}
FinesDeLinea == {CRLF, <<"\n">>}

RECURSIVE CuerpoHibp(_, _, _)
CuerpoHibp(ps, eol, alFinal) ==
  IF ps = <<>> THEN <<>>
  ELSE HibpLine(ps[1].sfx, ps[1].n)
       \o (IF Len(ps) > 1 \/ alFinal THEN eol ELSE <<>>)
       \o CuerpoHibp(Tail(ps), eol, alFinal)

\* a line of ps has the suffix of the digest of password and a count above 0
Listada(password, ps) ==
  \E k \in 1..Len(ps) : ps[k].sfx = SufijoDe(password) /\ ps[k].n > 0

\* C21: for every password and every body of SUFFIX:COUNT lines,
\* isPasswordPwned returns true exactly when a line has the suffix of the
\* password's digest with a count above 0, and false when that count is 0 or
\* the suffix is absent; checkPasswordCompromised answers 400 "compromised"
\* exactly then and 200 "safe" otherwise; and actualizarContrasena, for a
\* request that passes its other checks on a row whose challenge is no more
\* than 15 minutes old, refuses the password exactly then and changes it otherwise.
C21_PwnedIffListedWithCount ==
  \A pw \in Passwords, ps \in ParesHibp, eol \in FinesDeLinea, alFinal \in BOOLEAN :
    LET h == [ok |-> TRUE, data |-> CuerpoHibp(ps, eol, alFinal)]
        c == checkPasswordCompromised(auth, perfil, pw, h)
    IN /\ isPasswordPwned(pw, h) = Listada(pw, ps)
       /\ c.status = IF Listada(pw, ps) THEN 400 ELSE 200
       /\ c.msg = IF Listada(pw, ps)
                  THEN "La contrasena ha sido comprometida. Por favor, elige otra."
                  ELSE MsgSegura
       /\ \A i \in Filas :
            (/\ HayCodigo(i)
             /\ Edad(auth, i, now) <= TTL_RESET_MIN * MsPerMin
             /\ Len(pw) >= 8
             /\ passwordRegex(pw)) =>
              \A e \in EmailsDe(i) :
                LET r == actualizarContrasena(auth, perfil, e, pw, pw, h, "s1", now) IN
                  IF Listada(pw, ps)
                  THEN r.status = 400 /\ r.msg = MsgComprometida /\ r.auth = auth
                  ELSE r.status = 200 /\ r.auth[i].contrasena = Some(BcryptHash(pw, "s1"))

\* the password of a row was changed and the row holds a new challenge, not
\* yet expired; the password it now has is refused under a body that lists its
\* suffix with count 12 after another line, and accepted under the bodies that
\* list the suffix with count 0 or not at all
C21_Witness ==
  \E i \in Filas :
    /\ auth[i].contrasena = Some(BcryptHash(pwGood, "s1"))
    /\ auth[i].fecha_actualizacion # NULL
    /\ HayCodigo(i)
    /\ Edad(auth, i, now) \in 1..(TTL_RESET_MIN * MsPerMin)
    /\ \E e \in EmailsDe(i) :
         LET listed == [ok |-> TRUE,
                        data |-> CuerpoHibp(<<[sfx |-> <<"F","F","F">>, n |-> 0],
                                              [sfx |-> SufijoDe(pwGood), n |-> 12]>>,
                                            CRLF, TRUE)]
             zero == [ok |-> TRUE,
                      data |-> CuerpoHibp(<<[sfx |-> SufijoDe(pwGood), n |-> 0]>>, CRLF, FALSE)]
             absent == [ok |-> TRUE,
                        data |-> CuerpoHibp(<<[sfx |-> <<"F","F","F">>, n |-> 12]>>, CRLF, FALSE)]
         IN /\ isPasswordPwned(pwGood, listed)
            /\ actualizarContrasena(auth, perfil, e, pwGood, pwGood, listed, "s1", now).status
                 = 400
            /\ checkPasswordCompromised(auth, perfil, pwGood, listed).status = 400
            /\ ~isPasswordPwned(pwGood, zero)
            /\ actualizarContrasena(auth, perfil, e, pwGood, pwGood, zero, "s1", now).status
                 = 200
            /\ actualizarContrasena(auth, perfil, e, pwGood, pwGood, absent, "s1", now).status
                 = 200

\* C22: the comparison of suffixes ignores the case of the letters: a body
\* line whose suffix is the suffix of the password's digest written in lower
\* case, with a count above 0, makes isPasswordPwned return true (and
\* checkPasswordCompromised refuse the password).
\* Stated of the code; it does not hold: the code compares the trimmed suffix
\* of the line with === against the upper-cased digest.
C22_SuffixMatchIgnoresCase ==
  \A pw \in Passwords, n \in CuentasHibp \ {0}, eol \in FinesDeLinea :
    LET h == [ok |-> TRUE,
              data |-> CuerpoHibp(<<[sfx |-> ToLowerCase(SufijoDe(pw)), n |-> n]>>, eol, TRUE)]
    IN /\ isPasswordPwned(pw, h)
       /\ checkPasswordCompromised(auth, perfil, pw, h).status = 400

\* a handler of the registration or recovery router answered r with 400 and
\* wrote nothing and handed no code to the mailer
Rechazada(r) ==
  /\ r.status = 400
  /\ r.auth = auth
  /\ r.perfil = perfil
  /\ r.code = NULL

\* a handler of the preguntas router answered r, wrote nothing and sent no mail
SinEscritura(r) ==
  /\ r.mensajes = mensajes
  /\ r.respuestas = respuestas
  /\ r.mail = NULL

\* the identifiers a request to the preguntas router can name
IdsDeMensaje == 1..(MaxMensajes + 1)

\* C23: a request with a field that fails the validators of its route is
\* answered 400 and has no effect: no column of autenticacion_usuarios or
\* perfil_usuarios (the challenge included), no row of mensajes_contacto or
\* mensajes_contacto_respuestas is written, no code and no mail is sent; for
\* every route of the registration, recovery and preguntas routers that
\* declares validators, whatever the other fields and the collaborators do.
\* (On the two routes behind requireAuth a caller with no session is answered
\* 401 before the validators are looked at, with no effect either.)
C23_InvalidRequestHasNoEffect ==
  /\ \A e \in Emails, tok \in {"", "tok"}, g \in {"success", "failure", "throws"} :
       (~IsEmail(e) \/ tok = "") =>
         Rechazada(verificarCorreoCaptcha(auth, perfil, e, tok, g))
  /\ \A e \in Emails, r \in Rands, s \in Salts, ok \in BOOLEAN :
       ~IsEmail(e) => Rechazada(enviarCodigoRecuperar(auth, perfil, e, r, s, now, ok))
  /\ \A e \in Emails, c \in Codigos :
       (~IsEmail(e) \/ Len(c) # 6) =>
         /\ Rechazada(verificarCodigo(auth, perfil, e, c, now))
         /\ Rechazada(validarCodigo(auth, perfil, e, c, now))
  /\ \A e \in Emails, pw \in Passwords, cf \in Confirmaciones \cup Passwords,
        h \in HibpReplies, s \in Salts :
       (~IsEmail(e) \/ Len(pw) < 8 \/ cf = <<>>) =>
         Rechazada(actualizarContrasena(auth, perfil, e, pw, cf, h, s, now))
  /\ \A h \in HibpReplies : Rechazada(checkPasswordCompromised(auth, perfil, <<>>, h))
  /\ \A e \in Emails, f \in Fechas, r \in Rands, s \in Salts, ok \in BOOLEAN :
       (~IsEmail(e) \/ ~IsISO8601(f)) =>
         Rechazada(enviarCodigoRegistro(auth, perfil, e, f, r, s, now, ok))
  /\ \A e \in Emails, pw \in Passwords, d \in Perfiles, s \in Salts :
       (~IsEmail(e) \/ Len(pw) < 8 \/ ~PerfilValido(d)) =>
         Rechazada(actualizarUsuario(auth, perfil, e, pw, d, s))
  /\ \A e \in Emails, f \in Fechas, x \in BOOLEAN :
       (~IsEmail(e) \/ ~IsISO8601(f)) => validarUsuario(auth, perfil, e, f, x).status = 400
  /\ \A i \in IdsDeMensaje, f \in 0..3, envio \in {"ok", "error", "throws"}, n \in NodeEnvs :
       LET r == responder(mensajes, respuestas, i, <<>>, f, envio, n) IN
         r.status = 400 /\ SinEscritura(r)
  /\ \A q \in ReqsCrearPregunta :
       (q.nombre = "" \/ q.apellidoPaterno = "" \/ ~IsEmail(q.email) \/ q.mensaje = <<>>) =>
         LET r == crearPregunta(mensajes, respuestas, q.nombre, q.apellidoPaterno, q.email,
                                q.mensaje, q.falla) IN
           r.status = 400 /\ SinEscritura(r)
  /\ \A u \in Sesiones, x \in BOOLEAN :
       LET r == crearPreguntaRegistrado(mensajes, respuestas, auth, perfil, u, <<>>, x) IN
         /\ r.status = IF u = NULL THEN 401 ELSE 400
         /\ SinEscritura(r)
  /\ \A u \in Sesiones, i \in IdsDeMensaje, x \in BOOLEAN :
       LET r == responderRegistrado(mensajes, respuestas, u, i, <<>>, x) IN
         /\ r.status = IF u = NULL THEN 401 ELSE 400
         /\ SinEscritura(r)
  /\ \A i \in IdsDeMensaje, x \in BOOLEAN :
       LET r == responderAdmin(mensajes, respuestas, i, <<>>, x) IN
         r.status = 400 /\ SinEscritura(r)

\* a question of an author with no account waits for its answer and row 1,
\* pending, holds a challenge: the requests that would answer the question, and
\* replace the challenge, do so when well-formed and are refused with no effect
\* when a field is missing or malformed
C23_Witness ==
  \E i \in DOMAIN mensajes :
    /\ mensajes[i].id_usuario = NULL
    /\ mensajes[i].estado = EstadoInicial
    /\ Len(respuestas) < MaxRespuestas
    /\ HayCodigo(1)
    /\ auth[1].registro_completado = 0
    /\ responder(mensajes, respuestas, i, tOk, 0, "ok", "production").respuestas # respuestas
    /\ responder(mensajes, respuestas, i, <<>>, 0, "ok", "production").status = 400
    /\ enviarCodigoRegistro(auth, perfil, eAup, NacimientoDe(1), RandDenom - 1, "s1",
                            now, TRUE).auth # auth
    /\ Rechazada(enviarCodigoRegistro(auth, perfil, eAup, "x", 0, "s1", now, TRUE))

\* the delays after enviarCodigo at which the scenario of C24 submits the code
EsperasC24 == {0, 1, TTL_VERIFY}

\* C24: for every row whose registration is pending, the sequence
\* enviarCodigo with the address and the birthdate of the row (the mail being
\* accepted), validarCodigo with the code handed to the mailer, no more than 10
\* minutes later, and actualizarUsuario with a valid profile and a password of
\* at least 8 characters is answered 200 at each step: the first stores the
\* challenge, the second sets verificado = 1, the third sets
\* registro_completado = 1, and at the end the row still holds the challenge
\* and is verified and completed.
C24_RegistrationEndToEnd ==
  \A i \in Filas : auth[i].registro_completado = 0 =>
    \A e \in EmailsDe(i), r \in Rands, s \in Salts, dt \in EsperasC24,
       pw \in Passwords, d \in Perfiles :
      (Len(pw) >= 8 /\ PerfilValido(d)) =>
        LET r1 == enviarCodigoRegistro(auth, perfil, e, perfil[i].fecha_nacimiento, r, s,
                                       now, TRUE)
            r2 == validarCodigo(r1.auth, r1.perfil, e, r1.code[1], now + dt)
            r3 == actualizarUsuario(r2.auth, r2.perfil, e, pw, d, s)
        IN /\ r1.status = 200
           /\ r1.code = Some(DrawCode(r))
           /\ r1.auth[i].codigo_verificacion = Some(BcryptHash(JwtSign(DrawCode(r)), s))
           /\ r1.auth[i].fecha_codigo_verificacion = Some(now)
           /\ r2.status = 200
           /\ r2.auth[i].verificado = 1
           /\ r3.status = 200
           /\ r3.auth[i].registro_completado = 1
           /\ r3.auth[i].verificado = 1
           /\ r3.auth[i].codigo_verificacion = r1.auth[i].codigo_verificacion
           /\ r3.auth[i].contrasena = Some(BcryptHash(pw, s))
           /\ r3.perfil[i].nombre = Some(d.firstName)

\* a row that is not active, which only the enviarCodigo of the registration
\* router sends a code to and only while it is pending, holds its challenge,
\* was verified by validarCodigo and completed by actualizarUsuario after that
C24_Witness ==
  \E i \in Filas :
    /\ auth[i].estatus = "Inactivo"
    /\ HayCodigo(i)
    /\ hist[i].validado
    /\ hist[i].completadoCon = 1
    /\ auth[i].verificado = 1
    /\ auth[i].registro_completado = 1
    /\ auth[i].contrasena = Some(BcryptHash(pwGood, "s1"))
    /\ auth[i].fecha_actualizacion = NULL
    /\ perfil[i].nombre = Some(PerfilBueno.firstName)

\* an address that no row of autenticacion_usuarios has
eDesconocido == <<"z","@","z">>
EmailsC25 == Emails \cup {eDesconocido}

\* the request (e, f) is well formed and no row has that address with that birthdate
SinCoincidencia(e, f) ==
  /\ IsEmail(e)
  /\ IsISO8601(f)
  /\ ~\E i \in Filas : /\ auth[i].correo_electronico = ToLowerCase(e)
                       /\ perfil[i].fecha_nacimiento = f

\* C25: two requests to the enviarCodigo of the registration router that match
\* no row, one with the address of a row and a birthdate that is not its own,
\* the other with an address that no row has, get the same answer (status,
\* body, no code mailed) and both leave the two tables as they are.
C25_NoMatchSameAnswer ==
  \A e1 \in EmailsC25, e2 \in EmailsC25, f1 \in Fechas, f2 \in Fechas,
     r \in Rands, s \in Salts, m \in BOOLEAN :
    (/\ SinCoincidencia(e1, f1)
     /\ SinCoincidencia(e2, f2)
     /\ FilasDe(e1) # {}
     /\ FilasDe(e2) = {}) =>
      LET known == enviarCodigoRegistro(auth, perfil, e1, f1, r, s, now, m)
          unknown == enviarCodigoRegistro(auth, perfil, e2, f2, r, s, now, m)
      IN /\ known = unknown
         /\ known.status = 404
         /\ known.auth = auth
         /\ known.perfil = perfil
         /\ known.code = NULL

\* a completed row and a pending row that holds a challenge: the address of the
\* completed one with the birthdate of the other is answered as an address
\* that no row has
C25_Witness ==
  \E i \in Filas, j \in Filas :
    /\ i # j
    /\ auth[i].registro_completado = 1
    /\ auth[j].registro_completado = 0
    /\ HayCodigo(j)
    /\ FilasDe(eDesconocido) = {}
    /\ \E e \in EmailsDe(i) :
         /\ SinCoincidencia(e, perfil[j].fecha_nacimiento)
         /\ enviarCodigoRegistro(auth, perfil, e, perfil[j].fecha_nacimiento,
                                 0, "s1", now, TRUE)
              = enviarCodigoRegistro(auth, perfil, eDesconocido, perfil[j].fecha_nacimiento,
                                     0, "s1", now, TRUE)

\* the fields of a response body that carry text
CamposDeTexto == {"error", "details", "warning", "message", "error_message", "error_stack"}

\* the body gives out the message or the stack of the exception
Filtra(body) ==
  \E k \in DOMAIN body \cap CamposDeTexto :
    body[k] = ErrorDePrueba.message \/ body[k] = ErrorDePrueba.stack

\* the response is a 500 whose body has nothing of the exception
FalloGenerico(r) == r.status = 500 /\ ~Filtra(r.body)

\* C26: a handler whose query or whose mailer throws answers 500 with a fixed
\* message, and the body has neither the message nor the stack of the
\* exception: validarUsuario, test-email-registro and the five POST routes of
\* the preguntas router, whatever NODE_ENV is.
C26_InternalFailureIsGeneric ==
  /\ \A e \in Emails, f \in Fechas :
       (IsEmail(ToLowerCase(Trim(e))) /\ IsISO8601(f)) =>
         FalloGenerico(validarUsuario(auth, perfil, e, f, TRUE))
  /\ \A envio \in {"error", "throws"} : FalloGenerico(testEmailRegistro(envio))
  /\ \A id \in IdsDeMensaje, t \in Textos \ {<<>>}, falla \in 1..3, nodeEnv \in NodeEnvs :
       (falla = 1 \/ id \in DOMAIN mensajes) =>
         FalloGenerico(responder(mensajes, respuestas, id, t, falla, "ok", nodeEnv))
  /\ \A e \in Emails, t \in Textos \ {<<>>} :
       IsEmail(e) =>
         FalloGenerico(crearPregunta(mensajes, respuestas, "Ana", "Paz", e, t, TRUE))
  /\ \A u \in Sesiones \ {NULL}, t \in Textos \ {<<>>} :
       FalloGenerico(crearPreguntaRegistrado(mensajes, respuestas, auth, perfil, u, t, TRUE))
  /\ \A u \in Sesiones \ {NULL}, id \in IdsDeMensaje, t \in Textos \ {<<>>} :
       FalloGenerico(responderRegistrado(mensajes, respuestas, u, id, t, TRUE))
  /\ \A id \in IdsDeMensaje, t \in Textos \ {<<>>} :
       FalloGenerico(responderAdmin(mensajes, respuestas, id, t, TRUE))

\* a password with a lower-case letter, an upper-case letter, a digit, "!" and "#"
pwMixto == <<"A","b","c","d","e","f","1","!","#">>
PasswordsC27 == Passwords \cup {pwMixto}

\* the password has a lower-case letter, an upper-case letter, a digit and one
\* of the special characters the strength check looks for
CuatroClases(password) ==
  LET chars == {password[k] : k \in 1..Len(password)} IN
  /\ chars \cap LowerChars # {}
  /\ chars \cap UpperChars # {}
  /\ chars \cap DigitChars # {}
  /\ chars \cap SpecialChars # {}

\* C27: for a row with a challenge no more than 15 minutes old, a password
\* repeated in confirmPassword and not reported by the breach service,
\* actualizarContrasena answers 200 exactly when the password has 8 or more
\* characters with a lower-case letter, an upper-case letter, a digit and a
\* special character among them.
C27_StrengthIffFourClasses ==
  \A i \in Filas :
    (HayCodigo(i) /\ ~CambioExpirado(now, auth[i].fecha_codigo_verificacion)) =>
      \A e \in EmailsDe(i), pw \in PasswordsC27, h \in HibpReplies, s \in Salts :
        ~isPasswordPwned(pw, h) =>
          (actualizarContrasena(auth, perfil, e, pw, pw, h, s, now).status = 200
             <=> (Len(pw) >= 8 /\ CuatroClases(pw)))

\* the row holds a challenge that validarCodigo finds expired at time t
Caducado(i, t) == HayCodigo(i) /\ CodigoExpirado(t, auth[i].fecha_codigo_verificacion)

\* C28: while a row holds an expired challenge, validarCodigo refuses every
\* code as expired and writes nothing, now and at any later time; and when
\* the enviarCodigo of the registration router then issues a new code for the
\* row (pending), the stored date is the time of that request: validarCodigo
\* accepts the new code up to 10 minutes after it and refuses it as expired
\* from one millisecond later on.
C28_ReissueResetsTheClock ==
  \A i \in Filas : Caducado(i, now) =>
    \A e \in EmailsDe(i) :
      /\ \A c \in Codigos6, dt \in EsperasC24 :
           LET v == validarCodigo(auth, perfil, e, c, now + dt) IN
             /\ v.status = 400
             /\ v.msg = MsgExpiradoRegistro
             /\ v.auth = auth
             /\ v.perfil = perfil
      /\ auth[i].registro_completado = 0 =>
           \A r \in Rands, s \in Salts, m \in BOOLEAN :
             LET r1 == enviarCodigoRegistro(auth, perfil, e, perfil[i].fecha_nacimiento,
                                            r, s, now, m) IN
               /\ r1.auth[i].fecha_codigo_verificacion = Some(now)
               /\ r1.auth[i].codigo_verificacion = Some(BcryptHash(JwtSign(r1.code[1]), s))
               /\ \A dt \in EsperasC24 :
                    LET v == validarCodigo(r1.auth, r1.perfil, e, r1.code[1], now + dt) IN
                      v.status = 200 /\ v.auth[i].verificado = 1
               /\ LET w == validarCodigo(r1.auth, r1.perfil, e, r1.code[1],
                                         now + TTL_VERIFY + 1) IN
                    w.status = 400 /\ w.msg = MsgExpiradoRegistro /\ w.auth = r1.auth

\* enviarCodigo overwrote an expired challenge of the row and validarCodigo
\* accepted the new one, which is the one the row holds, not yet expired
C28_Witness ==
  \E i \in Filas :
    /\ hist[i].caducado
    /\ hist[i].regAccepted
    /\ auth[i].verificado = 1
    /\ auth[i].registro_completado = 0
    /\ HayCodigo(i)
    /\ ~Caducado(i, now)
    /\ auth[i].fecha_codigo_verificacion[1] > StartNow + TTL_VERIFY

\* the number a string of decimal digits, given as its digits, writes
RECURSIVE ValorDe(_)
ValorDe(c) == IF c = <<>> THEN 0 ELSE ValorDe(SubSeq(c, 1, Len(c) - 1)) * 10 + c[Len(c)]

\* six decimal digits, the first not 0: an integer of [100000, 999999]
EsCodigo(c) ==
  /\ Len(c) = 6
  /\ \A k \in 1..6 : c[k] \in 0..9
  /\ c[1] # 0
  /\ ValorDe(c) \in 100000..999999

\* C29: the code either enviarCodigo hands to the mailer has six decimal
\* digits and no leading zero, that is, it is an integer of [100000, 999999],
\* and what the request stores in codigo_verificacion is the bcrypt hash of
\* the signed token of that code; in every state the column is empty or holds
\* such a hash, and the last code issued for a row is of that range.
C29_CodeRangeAndHashedStorage ==
  /\ \A i \in Filas : \A e \in EmailsDe(i), r \in Rands, s \in Salts, m \in BOOLEAN :
       \A res \in {enviarCodigoRegistro(auth, perfil, e, perfil[i].fecha_nacimiento,
                                        r, s, now, m),
                   enviarCodigoRecuperar(auth, perfil, e, r, s, now, m)} :
         res.code # NULL =>
           /\ EsCodigo(res.code[1])
           /\ res.auth[i].codigo_verificacion = Some(BcryptHash(JwtSign(res.code[1]), s))
  /\ \A i \in Filas :
       /\ hist[i].issued # NULL => EsCodigo(hist[i].issued[1])
       /\ auth[i].codigo_verificacion # NULL =>
            \E r \in Rands, s \in Salts :
              /\ EsCodigo(DrawCode(r))
              /\ auth[i].codigo_verificacion = Some(BcryptHash(JwtSign(DrawCode(r)), s))

\* the greatest draw: the row holds the hash of the signed token of 999999,
\* the code handed to the mailer
C29_Witness ==
  \E i \in Filas :
    /\ hist[i].issued = Some(<<9, 9, 9, 9, 9, 9>>)
    /\ hist[i].issued = Some(DrawCode(RandDenom - 1))
    /\ auth[i].codigo_verificacion = Some(BcryptHash(JwtSign(<<9, 9, 9, 9, 9, 9>>), "s1"))

\* C30: actualizarUsuario, called with the address of a row whose registration
\* is completed, leaves the password hash and the profile of that row as they
\* are, so that only actualizarContrasena changes the password of a completed row.
C30_CompletedAccountNotOverwritten ==
  \A i \in Filas : auth[i].registro_completado = 1 =>
    \A e \in EmailsDe(i), pw \in Passwords, d \in Perfiles, s \in Salts :
      LET res == actualizarUsuario(auth, perfil, e, pw, d, s) IN
        /\ res.auth[i].contrasena = auth[i].contrasena
        /\ res.perfil[i] = perfil[i]

\* actualizarContrasena request k was answered with status
Cambio(k, status) ==
  enCurso[k].router = "cambio" /\ enCurso[k].pc = "fin" /\ enCurso[k].status = status

\* C31: of two actualizarContrasena requests for a row that ran concurrently
\* against one stored challenge (the SELECT of each returned that challenge,
\* and the UPDATE of one was applied while the other was between its SELECT
\* and its UPDATE), at most one is answered 200 and changes the password.
C31_AtMostOneConcurrentReset ==
  \A k \in Peticiones, o \in Peticiones :
    (/\ k # o
     /\ enCurso[k].router = "cambio" /\ enCurso[k].pc = "fin"
     /\ enCurso[o].router = "cambio" /\ enCurso[o].pc = "fin"
     /\ enCurso[k].userId = enCurso[o].userId
     /\ enCurso[k].leida # NULL
     /\ enCurso[k].leida = enCurso[o].leida
     /\ enCurso[k].rival) =>
      ~(Cambio(k, 200) /\ Cambio(o, 200))

\* C32: the challenge a row holds serves the workflow that issued it only:
\* while it is one the enviarCodigo of the registration router stored,
\* actualizarContrasena does not change the password of the row, and while it
\* is one the enviarCodigo of the recovery router stored, validarCodigo does
\* not accept a code for the row nor set verificado.
C32_ChallengeBoundToWorkflow ==
  \A i \in Filas : HayCodigo(i) =>
    \A e \in EmailsDe(i) :
      /\ hist[i].issuedBy = "registro" =>
           \A pw \in Passwords, h \in HibpReplies, s \in Salts :
             LET res == actualizarContrasena(auth, perfil, e, pw, pw, h, s, now) IN
               res.status # 200 /\ res.auth[i].contrasena = auth[i].contrasena
      /\ hist[i].issuedBy = "recuperar" =>
           \A c \in Codigos6 :
             LET res == validarCodigo(auth, perfil, e, c, now) IN
               res.status # 200 /\ res.auth[i].verificado = auth[i].verificado

\* requests k and o are two enviarCodigo requests for one row that both
\* completed: the UPDATE of each was applied, the mail of each was accepted and
\* each was answered 200; the mail of k is the one sent last
AmbasCompletas(k, o) ==
  /\ k # o
  /\ enCurso[k].pc = "fin" /\ enCurso[k].status = 200 /\ Guardo(k)
  /\ enCurso[o].pc = "fin" /\ enCurso[o].status = 200 /\ Guardo(o)
  /\ enCurso[k].userId = enCurso[o].userId
  /\ enCurso[k].postrero

\* C33, as claimed: when two concurrent enviarCodigo requests for a row have
\* both completed, the code of the mail that was sent last is the code of the
\* challenge on the row, and validarCodigo accepts it while the challenge is
\* no more than 10 minutes old.
\* It does not hold: the mails can leave in the opposite order of the UPDATEs.
C33_LastMailIsStoredCode ==
  \A k \in Peticiones, o \in Peticiones : AmbasCompletas(k, o) =>
    LET i == enCurso[k].userId IN
      /\ CodigoGuardado(auth, i) = enCurso[k].code
      /\ Edad(auth, i, now) <= TTL_VERIFY =>
           \A e \in EmailsDe(i) :
             validarCodigo(auth, perfil, e, enCurso[k].code[1], now).status = 200

\* C33, amended: when two concurrent enviarCodigo requests for a row have both
\* completed, the code of the challenge on the row is the code of the request
\* whose UPDATE was applied last; the code of the mail that was sent last is
\* that code, and is accepted by validarCodigo while the challenge is no more
\* than 10 minutes old, exactly when the request that sent it is also the one
\* whose UPDATE was applied last or the two requests drew the same code.
C33_LastMailIsStoredCodeIffLastUpdate ==
  \A k \in Peticiones, o \in Peticiones : AmbasCompletas(k, o) =>
    LET i == enCurso[k].userId
        ganador == IF enCurso[k].ultimo THEN k ELSE o
    IN /\ enCurso[k].ultimo # enCurso[o].ultimo
       /\ CodigoGuardado(auth, i) = enCurso[ganador].code
       /\ (CodigoGuardado(auth, i) = enCurso[k].code)
            <=> (enCurso[k].ultimo \/ enCurso[k].code = enCurso[o].code)
       /\ Edad(auth, i, now) <= TTL_VERIFY =>
            \A e \in EmailsDe(i) :
              (validarCodigo(auth, perfil, e, enCurso[k].code[1], now).status = 200)
                <=> (enCurso[k].ultimo \/ enCurso[k].code = enCurso[o].code)

\* both requests completed; the mail sent last is the one of the request whose
\* UPDATE was applied first, and its code, another than the stored one, is refused
C33_Witness ==
  \E k \in Peticiones, o \in Peticiones :
    /\ AmbasCompletas(k, o)
    /\ ~enCurso[k].ultimo
    /\ enCurso[o].ultimo
    /\ enCurso[k].code # enCurso[o].code
    /\ Edad(auth, enCurso[k].userId, now) <= TTL_VERIFY
    /\ \E e \in EmailsDe(enCurso[k].userId) :
         /\ validarCodigo(auth, perfil, e, enCurso[k].code[1], now).msg = MsgIncorrectoRegistro
         /\ validarCodigo(auth, perfil, e, enCurso[o].code[1], now).status = 200

\* actualizarContrasena request k is between its SELECT and its UPDATE, and
\* row i, the row it selected, now holds another challenge than the one the
\* SELECT returned: an enviarCodigo stored it in between
RetoNuevo(k, i) ==
  /\ enCurso[k].router = "cambio"
  /\ enCurso[k].pc = "seleccionado"
  /\ enCurso[k].userId = i
  /\ HayCodigo(i)
  /\ Reto(auth[i]) # enCurso[k].leida[1]

\* the tables after the UPDATE of request k
TrasCambio(k) ==
  GuardarContrasena(auth, enCurso[k].userId, enCurso[k].hashedPassword[1], now)

\* C34, as claimed: when an enviarCodigo stores a new challenge between the
\* SELECT and the UPDATE of an actualizarContrasena request, the UPDATE leaves
\* the new challenge on the row, and verificarCodigo still accepts its code.
\* It does not hold: the UPDATE clears the columns whatever they hold.
C34_ClearsOnlyCheckedChallenge ==
  \A k \in Peticiones, i \in Filas : RetoNuevo(k, i) =>
    /\ Reto(TrasCambio(k)[i]) = Reto(auth[i])
    /\ ~DiffMinutesMayor(now, auth[i].fecha_codigo_verificacion, TTL_VERIFY_MIN) =>
         \A e \in EmailsDe(i) :
           verificarCodigo(TrasCambio(k), perfil, e, CodigoGuardado(auth, i)[1], now).status = 200

\* C34, amended: when an enviarCodigo stores a new challenge between the
\* SELECT and the UPDATE of an actualizarContrasena request, the UPDATE, which
\* names the row and not the challenge, clears the new challenge as it sets
\* the password: afterwards both columns are NULL and the code of the new
\* challenge is refused by verificarCodigo and by validarCodigo.
C34_ClearsWhateverIsStored ==
  \A k \in Peticiones, i \in Filas : RetoNuevo(k, i) =>
    /\ TrasCambio(k)[i].codigo_verificacion = NULL
    /\ TrasCambio(k)[i].fecha_codigo_verificacion = NULL
    /\ TrasCambio(k)[i].contrasena = enCurso[k].hashedPassword
    /\ \A e \in EmailsDe(i) :
         /\ verificarCodigo(TrasCambio(k), perfil, e, CodigoGuardado(auth, i)[1], now).status
              # 200
         /\ validarCodigo(TrasCambio(k), perfil, e, CodigoGuardado(auth, i)[1], now).status
              # 200

\* the UPDATE of an actualizarContrasena request found another challenge on
\* the row than the one its SELECT had returned, the request was answered 200
\* and the row holds no challenge
C34_Witness ==
  \E k \in Peticiones :
    /\ Cambio(k, 200)
    /\ enCurso[k].piso
    /\ ~HayCodigo(enCurso[k].userId)
    /\ auth[enCurso[k].userId].codigo_verificacion = NULL
    /\ auth[enCurso[k].userId].contrasena = enCurso[k].hashedPassword

\* both challenge columns of the row are NULL, or neither is
RetoEntero(fila) ==
  (fila.codigo_verificacion = NULL) <=> (fila.fecha_codigo_verificacion = NULL)

\* C35: on every row codigo_verificacion and fecha_codigo_verificacion are
\* both NULL or both set. Either enviarCodigo leaves the two columns as they
\* are or sets both, to the hash of its code and the time of the request;
\* actualizarContrasena leaves them as they are or clears both; validarCodigo,
\* verificarCodigo, actualizarUsuario and verificarCorreoCaptcha leave them as
\* they are.
C35_ChallengeFieldsTogether ==
  \A i \in Filas :
    /\ RetoEntero(auth[i])
    /\ \A e \in Emails, r \in Rands, s \in Salts, m \in BOOLEAN :
         /\ \A f \in Fechas :
              LET res == enviarCodigoRegistro(auth, perfil, e, f, r, s, now, m) IN
                \/ Reto(res.auth[i]) = Reto(auth[i])
                \/ /\ res.auth[i].codigo_verificacion # NULL
                   /\ res.auth[i].fecha_codigo_verificacion = Some(now)
         /\ LET res == enviarCodigoRecuperar(auth, perfil, e, r, s, now, m) IN
              \/ Reto(res.auth[i]) = Reto(auth[i])
              \/ /\ res.auth[i].codigo_verificacion # NULL
                 /\ res.auth[i].fecha_codigo_verificacion = Some(now)
    /\ \A e \in Emails, pw \in Passwords, s \in Salts :
         LET res == actualizarContrasena(auth, perfil, e, pw, pw, HibpDown, s, now) IN
           \/ Reto(res.auth[i]) = Reto(auth[i])
           \/ /\ res.status = 200
              /\ res.auth[i].codigo_verificacion = NULL
              /\ res.auth[i].fecha_codigo_verificacion = NULL
    /\ \A e \in Emails :
         /\ \A c \in Codigos :
              /\ Reto(validarCodigo(auth, perfil, e, c, now).auth[i]) = Reto(auth[i])
              /\ Reto(verificarCodigo(auth, perfil, e, c, now).auth[i]) = Reto(auth[i])
         /\ \A pw \in Passwords, d \in Perfiles, s \in Salts :
              Reto(actualizarUsuario(auth, perfil, e, pw, d, s).auth[i]) = Reto(auth[i])
         /\ \A g \in {"success", "failure", "throws"} :
              Reto(verificarCorreoCaptcha(auth, perfil, e, "tok", g).auth[i]) = Reto(auth[i])

\* a row whose challenge actualizarContrasena cleared, both columns NULL, and
\* for which the enviarCodigo of the recovery router would set both again
C35_Witness ==
  \E i \in Filas :
    /\ auth[i].fecha_actualizacion # NULL
    /\ auth[i].codigo_verificacion = NULL
    /\ auth[i].fecha_codigo_verificacion = NULL
    /\ \E e \in EmailsDe(i) :
         LET res == enviarCodigoRecuperar(auth, perfil, e, 0, "s1", now, TRUE) IN
           /\ res.auth[i].codigo_verificacion # NULL
           /\ res.auth[i].fecha_codigo_verificacion = Some(now)

\* C36: no step of the registration and recovery routers takes
\* registro_completado of a row from 1 to 0, nor verificado from 1 to 0;
\* storing a new challenge leaves verificado as it is.
C36_FlagsMonotone ==
  [][\A i \in DOMAIN auth :
       /\ auth[i].registro_completado = 1 => auth'[i].registro_completado = 1
       /\ auth[i].verificado = 1 => auth'[i].verificado = 1]_vars

\* validarCodigo verified a pending row and enviarCodigo then stored a new
\* challenge, which has not been submitted: the row is still verified
C36_Witness ==
  \E i \in Filas :
    /\ auth[i].verificado = 1
    /\ auth[i].registro_completado = 0
    /\ HayCodigo(i)
    /\ ~hist[i].regAccepted

\* what the body of a validarUsuario response tells beyond the fields that
\* repeat the request
SinEco(body) ==
  [k \in DOMAIN body \ {"debug_correo_buscado", "debug_fecha_buscada"} |-> body[k]]

\* C37: two validarUsuario requests that match no row, one with the address
\* of a row and a birthdate that is not its own, the other with an address no
\* row has, get the same answer: 404 with the same body, but for the fields
\* that repeat the request.
C37_ValidarUsuarioNoMatchSameAnswer ==
  \A e1 \in EmailsC25, e2 \in EmailsC25, f \in Fechas :
    (/\ SinCoincidencia(e1, f)
     /\ SinCoincidencia(e2, f)
     /\ FilasDe(e1) # {}
     /\ FilasDe(e2) = {}) =>
      LET known == validarUsuario(auth, perfil, e1, f, FALSE)
          unknown == validarUsuario(auth, perfil, e2, f, FALSE)
      IN /\ known.status = 404
         /\ unknown.status = 404
         /\ DOMAIN known.body = DOMAIN unknown.body
         /\ SinEco(known.body) = SinEco(unknown.body)

\* how resend.emails.send can end
Envios == {"ok", "error", "throws"}

\* C38: POST /:id/responder with a non-empty answer for a question that
\* exists, when no query fails, inserts the answer (trimmed, with the author
\* of the question as respondido_por) and sets estado of that question to
\* 'respondido', whatever becomes of the mail; it hands the mail to the
\* mailer, for the address of the question, exactly when the question has no
\* id_usuario; it answers 200 in every case, with emailSent true exactly when
\* a mail was handed over and accepted. When a query fails no mail is attempted.
C38_ResponderStoresThenMails ==
  \A id \in DOMAIN mensajes, t \in Textos \ {<<>>}, nodeEnv \in NodeEnvs :
    /\ \A envio \in Envios :
         LET r == responder(mensajes, respuestas, id, t, 0, envio, nodeEnv) IN
           /\ r.status = 200
           /\ r.respuestas = Append(respuestas, [mensaje_id |-> id, respuesta |-> Trim(t),
                                                 respondido_por |-> mensajes[id].id_usuario])
           /\ r.mensajes = [mensajes EXCEPT ![id].estado = "respondido"]
           /\ (r.mail # NULL) <=> (mensajes[id].id_usuario = NULL)
           /\ r.mail # NULL => r.mail = Some(mensajes[id].correo_electronico)
           /\ (r.body.emailSent = "true") <=> (r.mail # NULL /\ envio = "ok")
    /\ \A falla \in 1..3, envio \in Envios :
         LET r == responder(mensajes, respuestas, id, t, falla, envio, nodeEnv) IN
           r.status = 500 /\ r.mail = NULL

\* a question of an author with no account is answered, its answer stored, and
\* another one is pending: answering it while the mailer throws stores the
\* answer, sets estado and is answered 200 with emailSent false
C38_Witness ==
  \E i \in DOMAIN mensajes, j \in DOMAIN mensajes :
    /\ mensajes[i].id_usuario = NULL
    /\ mensajes[i].estado = "respondido"
    /\ \E n \in DOMAIN respuestas : respuestas[n].mensaje_id = i
    /\ mensajes[j].id_usuario = NULL
    /\ mensajes[j].estado = EstadoInicial
    /\ Len(respuestas) < MaxRespuestas
    /\ LET r == responder(mensajes, respuestas, j, tOkSp, 0, "throws", "production") IN
         /\ r.status = 200
         /\ r.body.emailSent = "false"
         /\ r.mensajes[j].estado = "respondido"
         /\ Len(r.respuestas) = Len(respuestas) + 1

\* the handler of the preguntas router left both tables as they were
SinCambio(r) == r.mensajes = mensajes /\ r.respuestas = respuestas

\* C39: POST /:id/responder-registrado inserts an answer or sets estado only
\* when the caller has a session, the question exists and its id_usuario is
\* the user of the session; it answers 401 to a caller with no session, 404
\* for a question that does not exist and 403 for a question of another
\* author (or of an author with no account), each time writing nothing; for
\* the owner it answers 200, inserts the trimmed answer with the user as
\* respondido_por and sets estado to 'respondido'.
C39_OnlyOwnerAnswers ==
  \A u \in Sesiones, id \in IdsDeMensaje, t \in Textos, falla \in BOOLEAN :
    LET r == responderRegistrado(mensajes, respuestas, u, id, t, falla)
        propia == u # NULL /\ id \in DOMAIN mensajes /\ mensajes[id].id_usuario = u
    IN /\ ~SinCambio(r) => propia
       /\ u = NULL => (r.status = 401 /\ SinCambio(r))
       /\ (u # NULL /\ t # <<>> /\ ~falla) =>
            /\ id \notin DOMAIN mensajes => (r.status = 404 /\ SinCambio(r))
            /\ (id \in DOMAIN mensajes /\ mensajes[id].id_usuario # u) =>
                 (r.status = 403 /\ SinCambio(r))
            /\ propia =>
                 /\ r.status = 200
                 /\ r.respuestas = Append(respuestas, [mensaje_id |-> id, respuesta |-> Trim(t),
                                                       respondido_por |-> u])
                 /\ r.mensajes = [mensajes EXCEPT ![id].estado = "respondido"]
       /\ r.mail = NULL

\* the user of row 1 has a pending question and an author with no account
\* another: the owner's answer is stored, another user is answered 403 for
\* it, the owner 403 for the question with no id_usuario, no session 401
C39_Witness ==
  \E i \in DOMAIN mensajes, j \in DOMAIN mensajes :
    /\ mensajes[i].id_usuario = Some(1)
    /\ mensajes[i].estado = EstadoInicial
    /\ mensajes[j].id_usuario = NULL
    /\ Len(respuestas) < MaxRespuestas
    /\ responderRegistrado(mensajes, respuestas, Some(1), i, tOk, FALSE).status = 200
    /\ ~SinCambio(responderRegistrado(mensajes, respuestas, Some(1), i, tOk, FALSE))
    /\ responderRegistrado(mensajes, respuestas, Some(2), i, tOk, FALSE).status = 403
    /\ responderRegistrado(mensajes, respuestas, Some(1), j, tOk, FALSE).status = 403
    /\ responderRegistrado(mensajes, respuestas, NULL, i, tOk, FALSE).status = 401

====
